---- MODULE Spec2Model ----
(***************************************************************************)
(* A model of pytest-ansible-vagrant: the ssh-config parser, the inventory *)
(* synthesis and the VagrantRunner of pytest_ansible_vagrant/runner.py and *)
(* pytest_ansible_vagrant/ansible.py.                                      *)
(*                                                                         *)
(* Text representation.  A string value is a sequence of one-character     *)
(* strings.  A line of ssh-config text is a record [kw, rest]: kw is the   *)
(* first word of the line after its indentation, rest is everything that   *)
(* follows that word up to the end of the line (separator whitespace       *)
(* included).  A text is the sequence of its lines, i.e. the value of      *)
(* text.splitlines().                                                      *)
(***************************************************************************)
EXTENDS Integers, Sequences, FiniteSets, TLC

VARIABLES
    src,       \* SpecParse: the blocks the text was written from
    text,      \* SpecParse: the ssh-config text handed to the parser
    fields,    \* SpecBlock: the field dict handed to block validation
    inv_in,    \* SpecInventory: the arguments of _build_inventory_content
    self,      \* SpecRunner: the fields of the VagrantRunner instance
    inp,       \* SpecRunner: the arguments of the last operation and what its
               \* collaborators (file system, vagrant, ansible-runner) answered;
               \* SpecPlaybook: the document loaded from the playbook;
               \* SpecShutdown: the option and the ini value of the session
    log,       \* SpecRunner: the collaborator invocations the last operation made
    scope,     \* SpecFixture: the closure of the vagrant_run fixture
    hist,      \* history: what the operations applied so far have done
    call,      \* the operation applied last ("" before any)
    ret        \* what that operation returned or raised

vars == <<src, text, fields, inv_in, self, inp, log, scope, hist, call, ret>>

(***************************************************************************)
(* Strings                                                                 *)
(***************************************************************************)
DigitChars == <<"0", "1", "2", "3", "4", "5", "6", "7", "8", "9">>

Digits == {DigitChars[i] : i \in 1..Len(DigitChars)}

DigitVal(c) == (CHOOSE i \in 1..Len(DigitChars) : DigitChars[i] = c) - 1

\* \s of the regular expressions and the characters str.strip() removes
IsSpace(c) == c \in {" ", "\t"}

RECURSIVE LStrip(_)
LStrip(s) == IF s # <<>> /\ IsSpace(s[1]) THEN LStrip(Tail(s)) ELSE s

RECURSIVE RStrip(_)
RStrip(s) ==
    IF s # <<>> /\ IsSpace(s[Len(s)]) THEN RStrip(SubSeq(s, 1, Len(s) - 1)) ELSE s

\* str.strip()
Strip(s) == RStrip(LStrip(s))

\* str.lower() on the words the patterns can match (re.IGNORECASE)
Lower(w) ==
    CASE w \in {"Host", "host", "HOST"} -> "host"
      [] w \in {"HostName", "hostname", "HOSTNAME", "Hostname"} -> "hostname"
      [] w \in {"User", "user", "USER"} -> "user"
      [] w \in {"Port", "port", "PORT"} -> "port"
      [] w \in {"IdentityFile", "identityfile", "IDENTITYFILE"} -> "identityfile"
      [] OTHER -> w

\* the keys of a field dict, in the order _parse_ssh_config_block tests them
RequiredKeys == <<"hostname", "user", "port", "identityfile">>

KeySet == {RequiredKeys[i] : i \in 1..Len(RequiredKeys)}

\* the casing table of _parse_ssh_config_block
casing(k) ==
    CASE k = "hostname" -> "HostName"
      [] k = "user" -> "User"
      [] k = "port" -> "Port"
      [] k = "identityfile" -> "IdentityFile"

(***************************************************************************)
(* int(str): surrounding whitespace is stripped, an optional sign, then    *)
(* decimal digits, single underscores allowed between digits.              *)
(***************************************************************************)
IntBody(s) ==
    LET t == Strip(s)
    IN  IF t # <<>> /\ t[1] \in {"+", "-"} THEN Tail(t) ELSE t

IsIntLiteral(s) ==
    LET b == IntBody(s)
    IN  /\ b # <<>>
        /\ b[1] \in Digits
        /\ b[Len(b)] \in Digits
        /\ \A i \in 1..Len(b) : b[i] \in Digits \cup {"_"}
        /\ \A i \in 1..(Len(b) - 1) : ~(b[i] = "_" /\ b[i + 1] = "_")

RECURSIVE DigitsValue(_, _)
DigitsValue(b, acc) ==
    IF b = <<>> THEN acc
    ELSE IF b[1] = "_" THEN DigitsValue(Tail(b), acc)
    ELSE DigitsValue(Tail(b), 10 * acc + DigitVal(b[1]))

IntValue(s) ==
    LET t == Strip(s)
        v == DigitsValue(IntBody(s), 0)
    IN  IF t[1] = "-" THEN 0 - v ELSE v

(***************************************************************************)
(* Results and errors                                                      *)
(***************************************************************************)
None == "None"

\* the value of a function that returns nothing
NoVal == <<>>

NoErr == [type |-> "", msg |-> "", detail |-> <<>>]

Return(v) == [ok |-> TRUE, val |-> v, err |-> NoErr]

\* an exception: its class, the fixed part of its message and the values the
\* message is formatted with
Raise(type, msg, detail) ==
    [ok |-> FALSE, val |-> NoVal, err |-> [type |-> type, msg |-> msg, detail |-> detail]]

(***************************************************************************)
(* Python dict: insertion-ordered; assigning to a key that is present      *)
(* keeps its position.                                                     *)
(***************************************************************************)
EmptyDict == [keys |-> <<>>, map |-> <<>>]

Has(d, k) == \E i \in 1..Len(d.keys) : d.keys[i] = k

Pos(d, k) == CHOOSE i \in 1..Len(d.keys) : d.keys[i] = k

Get(d, k) == d.map[Pos(d, k)]

DictSet(d, k, v) ==
    IF Has(d, k)
    THEN [d EXCEPT !.map[Pos(d, k)] = v]
    ELSE [keys |-> Append(d.keys, k), map |-> Append(d.map, v)]

\* next(iter(d.values()))
FirstValue(d) == d.map[1]

(***************************************************************************)
(* runner.py: the patterns                                                 *)
(***************************************************************************)
NoMatch == [matched |-> FALSE, g1 |-> None, g2 |-> None]

RECURSIVE FirstToken(_)
FirstToken(s) ==
    IF s = <<>> \/ IsSpace(s[1]) THEN <<>> ELSE <<s[1]>> \o FirstToken(Tail(s))

\* mutant: the pattern without its anchor at the end of the line
PAT_HOST_Unanchored(raw) ==
    LET tok == FirstToken(LStrip(raw.rest))
    IN  IF Lower(raw.kw) = "host" /\ raw.rest # <<>> /\ IsSpace(raw.rest[1]) /\ tok # <<>>
        THEN [matched |-> TRUE, g1 |-> tok, g2 |-> None]
        ELSE NoMatch

\* _PAT_HOST = ^\s*Host\s+(\S+)\s*$ , case-insensitive
PAT_HOST(raw) ==
    LET tok == Strip(raw.rest)
    IN  IF /\ Lower(raw.kw) = "host"
           /\ raw.rest # <<>>
           /\ IsSpace(raw.rest[1])
           /\ tok # <<>>
           /\ \A i \in 1..Len(tok) : ~IsSpace(tok[i])
        THEN [matched |-> TRUE, g1 |-> tok, g2 |-> None]
        ELSE NoMatch

\* mutant: the keys are matched as they are spelled in the pattern
PAT_KV_CaseSensitive(raw) ==
    IF /\ raw.kw \in {"HostName", "User", "Port", "IdentityFile"}
       /\ Len(raw.rest) >= 2
       /\ IsSpace(raw.rest[1])
    THEN [matched |-> TRUE,
          g1 |-> raw.kw,
          g2 |-> IF Strip(raw.rest) = <<>>
                 THEN <<raw.rest[Len(raw.rest)]>>
                 ELSE Strip(raw.rest)]
    ELSE NoMatch

\* _PAT_KV = ^\s*(HostName|User|Port|IdentityFile)\s+(.+?)\s*$ , case-insensitive.
\* \s+ needs one whitespace character and .+? one more character of any kind;
\* group 2 runs from the first to the last non-blank character, and is a single
\* whitespace character when the rest of the line is blank.
PAT_KV(raw) ==
    IF /\ Lower(raw.kw) \in KeySet
       /\ Len(raw.rest) >= 2
       /\ IsSpace(raw.rest[1])
    THEN [matched |-> TRUE,
          g1 |-> raw.kw,
          g2 |-> IF Strip(raw.rest) = <<>>
                 THEN <<raw.rest[Len(raw.rest)]>>
                 ELSE Strip(raw.rest)]
    ELSE NoMatch

(***************************************************************************)
(* runner.py: _parse_ssh_config_block                                      *)
(***************************************************************************)
\* a field dict: a function from the keys present to their values
NoFields == [k \in {} |-> <<>>]

SetField(f, k, v) == [x \in (DOMAIN f) \cup {k} |-> IF x = k THEN v ELSE f[x]]

missing(f) == SelectSeq(RequiredKeys, LAMBDA k : k \notin DOMAIN f)

RECURSIVE MapCasing(_)
MapCasing(ks) == IF ks = <<>> THEN <<>> ELSE <<casing(ks[1])>> \o MapCasing(Tail(ks))

SSHConfig(hostname, port, user, identityfile) ==
    [hostname |-> hostname, port |-> port, user |-> user, identityfile |-> identityfile]

\* mutant: the port is examined before the missing keys
parse_ssh_config_block_PortFirst(f) ==
    IF "port" \in DOMAIN f /\ ~IsIntLiteral(f["port"])
    THEN Raise("ValueError", "ssh-config invalid Port", f["port"])
    ELSE IF missing(f) # <<>>
    THEN Raise("ValueError", "ssh-config missing", MapCasing(missing(f)))
    ELSE Return(SSHConfig(f["hostname"], IntValue(f["port"]), f["user"], f["identityfile"]))

\* mutant: a port that is no integer falls back to 22
parse_ssh_config_block_PortDefault(f) ==
    IF missing(f) # <<>>
    THEN Raise("ValueError", "ssh-config missing", MapCasing(missing(f)))
    ELSE Return(SSHConfig(f["hostname"],
                          IF IsIntLiteral(f["port"]) THEN IntValue(f["port"]) ELSE 22,
                          f["user"], f["identityfile"]))

parse_ssh_config_block(f) ==
    IF missing(f) # <<>>
    THEN Raise("ValueError", "ssh-config missing", MapCasing(missing(f)))
    ELSE IF ~IsIntLiteral(f["port"])
    THEN Raise("ValueError", "ssh-config invalid Port", f["port"])
    ELSE Return(SSHConfig(f["hostname"], IntValue(f["port"]), f["user"], f["identityfile"]))

(***************************************************************************)
(* runner.py: _from_ssh_config_multi, _from_ssh_config                     *)
(***************************************************************************)
\* the loop's locals
\* current_host = None is NoHost: (\S+) never captures the empty string
NoHost == <<>>

ScanInit == [hosts |-> EmptyDict, current_host |-> NoHost, fields |-> NoFields]

\* mutant: an alias that has an entry keeps it
FlushBlock_KeepFirst(st) ==
    IF st.current_host # NoHost /\ DOMAIN st.fields # {} /\ ~Has(st.hosts, st.current_host)
    THEN LET r == parse_ssh_config_block(st.fields)
         IN  IF r.ok THEN DictSet(st.hosts, st.current_host, r.val) ELSE st.hosts
    ELSE st.hosts

\* mutant: a block that fails validation discards what was parsed before it
FlushBlock_Abort(st) ==
    IF st.current_host # NoHost /\ DOMAIN st.fields # {}
    THEN LET r == parse_ssh_config_block(st.fields)
         IN  IF r.ok THEN DictSet(st.hosts, st.current_host, r.val) ELSE EmptyDict
    ELSE st.hosts

\* lines 81-85 and 102-106: a block with fields that validates is stored, one that
\* raises ValueError is passed over
FlushBlock(st) ==
    IF st.current_host # NoHost /\ DOMAIN st.fields # {}
    THEN LET r == parse_ssh_config_block(st.fields)
         IN  IF r.ok THEN DictSet(st.hosts, st.current_host, r.val) ELSE st.hosts
    ELSE st.hosts

\* mutant: a quote of either kind at each end is enough
Unquote_AnyKind(v) ==
    IF Len(v) >= 2 /\ v[1] \in {"\"", "'"} /\ v[Len(v)] \in {"\"", "'"}
    THEN SubSeq(v, 2, Len(v) - 1)
    ELSE v

\* mutant: quotes are kept
Unquote_Never(v) == v

\* lines 97-99
Unquote(v) ==
    IF Len(v) >= 2 /\ v[1] = v[Len(v)] /\ v[1] \in {"\"", "'"}
    THEN SubSeq(v, 2, Len(v) - 1)
    ELSE v

\* one iteration of the for loop, lines 78-100
ScanLine(st, raw) ==
    LET host_match == PAT_HOST(raw)
        m == PAT_KV(raw)
    IN  IF host_match.matched
        THEN [hosts |-> FlushBlock(st), current_host |-> host_match.g1, fields |-> NoFields]
        ELSE IF st.current_host = NoHost THEN st
        ELSE IF ~m.matched THEN st
        ELSE [st EXCEPT !.fields = SetField(st.fields, Lower(m.g1), Unquote(Strip(m.g2)))]

RECURSIVE ScanLines(_, _)
ScanLines(st, lines) ==
    IF lines = <<>> THEN st ELSE ScanLines(ScanLine(st, lines[1]), Tail(lines))

\* mutant: the block open at the end of the text is not flushed
from_ssh_config_multi_NoFinalFlush(t) == ScanLines(ScanInit, t).hosts

from_ssh_config_multi(t) == FlushBlock(ScanLines(ScanInit, t))

\* mutant: the value stored last is returned
from_ssh_config_Last(t) ==
    LET hosts == from_ssh_config_multi(t)
    IN  IF hosts.keys = <<>>
        THEN Raise("ValueError", "ssh-config contains no valid host blocks", <<>>)
        ELSE Return(hosts.map[Len(hosts.map)])

\* mutant: an empty mapping is reported as missing fields
from_ssh_config_Missing(t) ==
    LET hosts == from_ssh_config_multi(t)
    IN  IF hosts.keys = <<>>
        THEN Raise("ValueError", "ssh-config missing",
                   <<"HostName", "User", "Port", "IdentityFile">>)
        ELSE Return(FirstValue(hosts))

from_ssh_config(t) ==
    LET hosts == from_ssh_config_multi(t)
    IN  IF hosts.keys = <<>>
        THEN Raise("ValueError", "ssh-config contains no valid host blocks", <<>>)
        ELSE Return(FirstValue(hosts))

(***************************************************************************)
(* The texts the parser is run on.  A text is written from a preamble and  *)
(* a sequence of block descriptions; a block description is an alias, the  *)
(* spelling of its Host keyword and a sequence of items, one per line.  An *)
(* item [key, form, q, val, pad] is the line                               *)
(*     <key spelled in form> <q><val><q><pad>                              *)
(* where q is a quote character or nothing and pad is trailing whitespace. *)
(***************************************************************************)
MaxBlocks == 2

Item(key, form, q, val, pad) == [key |-> key, form |-> form, q |-> q, val |-> val, pad |-> pad]

Upper(k) ==
    CASE k = "hostname" -> "HOSTNAME"
      [] k = "user" -> "USER"
      [] k = "port" -> "PORT"
      [] k = "identityfile" -> "IDENTITYFILE"

Spell(key, form) ==
    IF key \notin KeySet THEN key
    ELSE CASE form = "canon" -> casing(key)
           [] form = "lower" -> key
           [] form = "upper" -> Upper(key)

Line(kw, rest) == [kw |-> kw, rest |-> rest]

ItemLine(it) == Line(Spell(it.key, it.form), <<" ">> \o it.q \o it.val \o it.q \o it.pad)

RECURSIVE ItemLines(_)
ItemLines(items) ==
    IF items = <<>> THEN <<>> ELSE <<ItemLine(items[1])>> \o ItemLines(Tail(items))

BlockLines(b) == <<Line(b.hdr, <<" ">> \o b.alias)>> \o ItemLines(b.items)

RECURSIVE BlocksLines(_)
BlocksLines(bs) ==
    IF bs = <<>> THEN <<>> ELSE BlockLines(bs[1]) \o BlocksLines(Tail(bs))

Render(s) == s.pre \o BlocksLines(s.blocks)

Plain(key, val) == Item(key, "canon", <<>>, val, <<>>)

DQ == <<"\"">>

SQ == <<"'">>

Aliases == {<<"a">>, <<"b">>}

hostOf(a) == <<"h">> \o a

userOf(a) == <<"u">> \o a

keyOf(a) == <<"/", "k">> \o a

portOf(a) == IF a = <<"a">> THEN <<"2", "2", "2", "2">> ELSE <<"2", "3">>

Comment == Item("#", "canon", <<>>, <<"x">>, <<>>)

Block(a, hdr, items) == [alias |-> a, hdr |-> hdr, items |-> items]

\* the four keys, unquoted (test_parse_ssh_config_valid)
PlainBlock(a) ==
    Block(a, "Host", <<Plain("hostname", hostOf(a)), Plain("user", userOf(a)),
                       Plain("port", portOf(a)), Plain("identityfile", keyOf(a))>>)

\* quoted values, keywords in other cases, a comment (test_parse_ssh_config_quoted_values)
QuotedBlock(a) ==
    Block(a, "host", <<Comment,
                       Item("hostname", "lower", DQ, hostOf(a), <<>>),
                       Item("user", "upper", SQ, userOf(a), <<>>),
                       Plain("port", portOf(a)),
                       Item("identityfile", "canon", DQ, keyOf(a), <<>>)>>)

\* no HostName (test_parse_ssh_config_block_missing_hostname)
NoHostNameBlock(a) ==
    Block(a, "Host", <<Plain("user", userOf(a)), Plain("port", portOf(a)),
                       Plain("identityfile", keyOf(a))>>)

\* User and Port only (test_parse_ssh_config_missing_fields)
UserPortBlock(a) ==
    Block(a, "Host", <<Plain("user", userOf(a)), Plain("port", portOf(a))>>)

\* a Port that is no number (test_parse_ssh_config_block_invalid_port)
BadPortBlock(a) ==
    Block(a, "Host", <<Plain("hostname", hostOf(a)), Plain("user", userOf(a)),
                       Plain("port", <<"x">>), Plain("identityfile", keyOf(a))>>)

\* no HostName and a Port that is no number
NoHostNameBadPortBlock(a) ==
    Block(a, "Host", <<Plain("user", userOf(a)), Plain("port", <<"x">>),
                       Plain("identityfile", keyOf(a))>>)

\* no recognized line at all
EmptyBlock(a) == Block(a, "HOST", <<Comment>>)

\* a key given twice, and an unrecognized line
TwicePortBlock(a) ==
    Block(a, "Host", <<Plain("port", <<"8", "0">>), Plain("hostname", hostOf(a)),
                       Plain("user", userOf(a)), Item("Hostx", "canon", <<>>, <<"y">>, <<>>),
                       Plain("port", portOf(a)), Plain("identityfile", keyOf(a))>>)

\* a quote at one end only, and quotes of two kinds
HalfQuotedBlock(a) ==
    Block(a, "Host", <<Plain("hostname", DQ \o hostOf(a)),
                       Plain("user", SQ \o userOf(a) \o DQ),
                       Plain("port", portOf(a)), Plain("identityfile", keyOf(a))>>)

\* a negative port
NegativePortBlock(a) ==
    Block(a, "Host", <<Plain("hostname", hostOf(a)), Plain("user", userOf(a)),
                       Plain("port", <<"-", "5">>), Plain("identityfile", keyOf(a))>>)

\* HostName "" , User followed by blanks only, Port 0
EmptyValuesBlock(a) ==
    Block(a, "Host", <<Item("hostname", "canon", DQ, <<>>, <<>>),
                       Item("user", "canon", <<>>, <<>>, <<" ">>),
                       Plain("port", <<"0">>), Plain("identityfile", keyOf(a))>>)

\* trailing whitespace, and blanks inside the quotes of the port
PaddedBlock(a) ==
    Block(a, "Host", <<Item("hostname", "canon", <<>>, hostOf(a), <<" ", "\t">>),
                       Plain("user", userOf(a)),
                       Item("port", "canon", DQ, <<" ">> \o portOf(a) \o <<" ">>, <<>>),
                       Plain("identityfile", keyOf(a))>>)

\* the block descriptions of one alias
BlocksOf(a) ==
    { PlainBlock(a), QuotedBlock(a), NoHostNameBlock(a), UserPortBlock(a),
      BadPortBlock(a), NoHostNameBadPortBlock(a), EmptyBlock(a), TwicePortBlock(a),
      HalfQuotedBlock(a), NegativePortBlock(a), EmptyValuesBlock(a), PaddedBlock(a) }

BlockPool == UNION {BlocksOf(a) : a \in Aliases}

\* what may precede the first host declaration: nothing; key lines; Host lines
\* with two tokens or with none, a Hosts line, a blank line, and key lines after
Preambles ==
    { <<>>,
      <<Line("HostName", <<" ", "h">>), Line("User", <<" ", "u">>),
        Line("Port", <<" ", "9", "9">>), Line("IdentityFile", <<" ", "/", "k">>)>>,
      <<Line("Host", <<" ">>), Line("Hosts", <<" ", "b">>), Line("", <<>>),
        Line("Host", <<" ", "a", " ", "b">>), Line("HostName", <<" ", "h">>),
        Line("User", <<" ", "u">>), Line("Port", <<" ", "9", "9">>),
        Line("IdentityFile", <<" ", "/", "k">>)>> }

BlockSeqs == UNION {[1..n -> BlockPool] : n \in 0..MaxBlocks}

\* texts of three blocks in which alias a is declared, then b, then a again
RepeatedAliasSeqs ==
    { <<x, PlainBlock(<<"b">>), y>> :
          x \in {PlainBlock(<<"a">>), BadPortBlock(<<"a">>), NegativePortBlock(<<"a">>)},
          y \in {HalfQuotedBlock(<<"a">>), NegativePortBlock(<<"a">>),
                 BadPortBlock(<<"a">>), EmptyBlock(<<"a">>)} }

\* a block whose HostName line is the given item
HostNameBlock(a, it) ==
    Block(a, "Host", <<it, Plain("user", userOf(a)), Plain("port", portOf(a)),
                       Plain("identityfile", keyOf(a))>>)

\* HostName values with quotes inside quotes, of a quote character alone, of two
\* quote characters and with a quote at the end only
QuoteBlocks ==
    { HostNameBlock(<<"a">>, it) :
          it \in { Item("hostname", "canon", DQ, DQ \o <<"h">> \o DQ, <<>>),
                   Item("hostname", "canon", SQ, DQ \o <<"h">> \o DQ, <<>>),
                   Item("hostname", "canon", SQ, <<>>, <<>>),
                   Plain("hostname", DQ),
                   Plain("hostname", SQ),
                   Plain("hostname", <<"h">> \o SQ),
                   Plain("hostname", DQ \o <<"h">> \o SQ) } }

Sources ==
    {[pre |-> p, blocks |-> bs] : p \in Preambles, bs \in BlockSeqs}
    \cup {[pre |-> <<>>, blocks |-> bs] : bs \in RepeatedAliasSeqs}
    \cup {[pre |-> <<>>, blocks |-> <<b>>] : b \in QuoteBlocks}

(***************************************************************************)
(* SpecParse: parse_all and parse_one applied to a text                    *)
(***************************************************************************)
NoSource == [pre |-> <<>>, blocks |-> <<>>]

\* the variables of the other specifications, at rest
ParserIdle == src = NoSource /\ text = <<>> /\ fields = NoFields

InventoryIdle == inv_in = <<>>

RunnerIdle == self = <<>> /\ inp = <<>> /\ log = <<>>

FixtureIdle == scope = <<>> /\ hist = <<>>

ParseInit ==
    /\ src \in Sources
    /\ text = Render(src)
    /\ fields = NoFields
    /\ InventoryIdle
    /\ RunnerIdle
    /\ FixtureIdle
    /\ call = ""
    /\ ret = Return(NoVal)

ParseAll ==
    /\ call' = "parse_all"
    /\ ret' = Return(from_ssh_config_multi(text))
    /\ UNCHANGED <<src, text, fields, inv_in, self, inp, log, scope, hist>>

ParseOne ==
    /\ call' = "parse_one"
    /\ ret' = from_ssh_config(text)
    /\ UNCHANGED <<src, text, fields, inv_in, self, inp, log, scope, hist>>

ParseNext == ParseAll \/ ParseOne

SpecParse == ParseInit /\ [][ParseNext]_vars

(***************************************************************************)
(* SpecBlock: _parse_ssh_config_block applied to a field dict              *)
(***************************************************************************)
FieldValues == {<<"h", "a">>, <<"2", "2">>, <<"x">>, <<"-", "5">>, <<>>}

FieldDicts == UNION {[S -> FieldValues] : S \in SUBSET KeySet}

BlockInit ==
    /\ fields \in FieldDicts
    /\ src = NoSource
    /\ text = <<>>
    /\ InventoryIdle
    /\ RunnerIdle
    /\ FixtureIdle
    /\ call = ""
    /\ ret = Return(NoVal)

ParseBlock ==
    /\ call' = "parse_block"
    /\ ret' = parse_ssh_config_block(fields)
    /\ UNCHANGED <<src, text, fields, inv_in, self, inp, log, scope, hist>>

BlockNext == ParseBlock

SpecBlock == BlockInit /\ [][BlockNext]_vars

(***************************************************************************)
(* ansible.py: _build_inventory_content                                    *)
(***************************************************************************)
RECURSIVE NatStr(_)
NatStr(n) ==
    IF n < 10 THEN <<DigitChars[n + 1]>>
    ELSE NatStr(n \div 10) \o <<DigitChars[(n % 10) + 1]>>

\* str(int), as the f-string formats the port
IntStr(n) == IF n < 0 THEN <<"-">> \o NatStr(0 - n) ELSE NatStr(n)

\* one host line: the name, then the variables in the order they are written
InventoryLine(name, cfg) ==
    [name |-> name,
     ansible_host |-> cfg.hostname,
     ansible_port |-> IntStr(cfg.port),
     ansible_user |-> cfg.user,
     ansible_ssh_private_key_file |-> cfg.identityfile,
     ansible_ssh_common_args |-> "'-o StrictHostKeyChecking=no -o UserKnownHostsFile=/dev/null'",
     ansible_python_interpreter |-> "/usr/bin/python3"]

RECURSIVE PatternLines(_, _)
PatternLines(host_patterns, cfg) ==
    IF host_patterns = <<>> THEN <<>>
    ELSE <<InventoryLine(host_patterns[1], cfg)>> \o PatternLines(Tail(host_patterns), cfg)

RECURSIVE AliasLines(_, _)
AliasLines(ssh_cfgs, i) ==
    IF i > Len(ssh_cfgs.keys) THEN <<>>
    ELSE <<InventoryLine(ssh_cfgs.keys[i], ssh_cfgs.map[i])>> \o AliasLines(ssh_cfgs, i + 1)

\* host_patterns = None is NoPatterns; a list is true when it is not empty
NoPatterns == <<>>

\* mutant: the lines are always keyed by alias
build_inventory_content_ByAlias(ssh_cfgs, host_patterns) ==
    [group |-> "[vagrant]", lines |-> AliasLines(ssh_cfgs, 1)]

\* mutant: the patterns name the lines whenever there are patterns
build_inventory_content_ByPattern(ssh_cfgs, host_patterns) ==
    [group |-> "[vagrant]",
     lines |-> IF Len(ssh_cfgs.keys) >= 1 /\ host_patterns # NoPatterns
               THEN PatternLines(host_patterns, FirstValue(ssh_cfgs))
               ELSE AliasLines(ssh_cfgs, 1)]

\* the document: the group header and the host lines under it
build_inventory_content(ssh_cfgs, host_patterns) ==
    [group |-> "[vagrant]",
     lines |-> IF Len(ssh_cfgs.keys) = 1 /\ host_patterns # NoPatterns
               THEN PatternLines(host_patterns, FirstValue(ssh_cfgs))
               ELSE AliasLines(ssh_cfgs, 1)]

(***************************************************************************)
(* SpecInventory: _build_inventory_content applied to descriptors and      *)
(* patterns                                                                *)
(***************************************************************************)
MaxHosts == 2

MaxPatterns == 2

HostNames == {<<"a">>, <<"b">>, <<"c">>}

\* descriptors as the parser returns them
ConfigsOf(a) ==
    { SSHConfig(hostOf(a), 2222, userOf(a), keyOf(a)),
      SSHConfig(<<"1", "2", "7", ".", "0", ".", "0", ".", "1">>, 22,
                <<"v", "a", "g", "r", "a", "n", "t">>, keyOf(a)) }

IsInjective(f) == \A i, j \in DOMAIN f : i # j => f[i] # f[j]

KeySeqs(S, n) == {ks \in UNION {[1..m -> S] : m \in 0..n} : IsInjective(ks)}

ConfigDicts ==
    UNION { {[keys |-> ks, map |-> m] : m \in {f \in [1..Len(ks) -> UNION {ConfigsOf(a) : a \in HostNames}] :
                                                \A i \in 1..Len(ks) : f[i] \in ConfigsOf(ks[i])}} :
            ks \in KeySeqs(HostNames, MaxHosts) }

PatternNames == {<<"w", "e", "b">>, <<"d", "b">>, <<"a", "l", "l">>}

\* what extract_play_hosts(playbook) or None evaluates to: None, or a list
\* without repetition that is not empty
PatternLists == KeySeqs(PatternNames, MaxPatterns)

InventoryInit ==
    /\ inv_in \in {[ssh_configs |-> d, host_patterns |-> ps] : d \in ConfigDicts, ps \in PatternLists}
    /\ ParserIdle
    /\ RunnerIdle
    /\ FixtureIdle
    /\ call = ""
    /\ ret = Return(NoVal)

BuildInventory ==
    /\ call' = "build_inventory"
    /\ ret' = Return(build_inventory_content(inv_in.ssh_configs, inv_in.host_patterns))
    /\ UNCHANGED <<src, text, fields, inv_in, self, inp, log, scope, hist>>

InventoryNext == BuildInventory

SpecInventory == InventoryInit /\ [][InventoryNext]_vars

(***************************************************************************)
(* utilities.py                                                            *)
(***************************************************************************)
\* an absent str | None argument is the empty string: the code tests such
\* arguments for truth, and None and "" are both false
Absent == ""

\* mutant: only the first missing binary is reported
require_bins_First(bins, installed) ==
    LET miss == SelectSeq(bins, LAMBDA b : b \notin installed)
    IN  IF miss # <<>>
        THEN Raise("RuntimeError", "Missing required binaries", <<miss[1]>>)
        ELSE Return(NoVal)

\* installed: the binaries shutil.which finds
require_bins(bins, installed) ==
    LET miss == SelectSeq(bins, LAMBDA b : b \notin installed)
    IN  IF miss # <<>>
        THEN Raise("RuntimeError", "Missing required binaries", miss)
        ELSE Return(NoVal)

\* exists: whether the path is on disk
resolve_playbook_path(playbook, exists) ==
    IF exists THEN Return(<<"proj", playbook>>)
    ELSE Raise("FileNotFoundError", "playbook not found", <<playbook>>)

\* None is the empty path; a relative name that exists under the project is joined
\* to it, any other is passed through
resolve_inventory_path(inventory_file, exists) ==
    IF inventory_file = Absent THEN <<>>
    ELSE IF exists THEN <<"proj", inventory_file>>
    ELSE <<inventory_file>>

\* what yaml.safe_load returns for the playbook: a list of items, one mapping, or
\* any other value (a scalar, or None for an empty file).  A mapping stands for
\* the value of its hosts key: a string (kind "str"), or something else (kind
\* "other": a list, or no hosts key); a list item that is no mapping has kind
\* "nondict"
List(items) == [type |-> "list", items |-> items]

Dict(play) == [type |-> "dict", items |-> <<play>>]

Scalar == [type |-> "scalar", items |-> <<>>]

Str(s) == [kind |-> "str", s |-> s]

NoHostsKey == [kind |-> "other", s |-> <<>>]

NonDict == [kind |-> "nondict", s |-> <<>>]

\* lines 73-79: the plays of the document
load_plays(data) ==
    IF data.type = "list" THEN SelectSeq(data.items, LAMBDA p : p.kind # "nondict")
    ELSE IF data.type = "dict" THEN data.items
    ELSE <<>>

\* lines 81-90: the loop over the plays, out and seen kept as one sequence
RECURSIVE PlayHosts(_, _)
PlayHosts(plays, out) ==
    IF plays = <<>> THEN out
    ELSE LET h == plays[1]
             hv == Strip(h.s)
         IN  IF h.kind = "str" /\ hv # <<>> /\ \A i \in 1..Len(out) : out[i] # hv
             THEN PlayHosts(Tail(plays), Append(out, hv))
             ELSE PlayHosts(Tail(plays), out)

\* mutant: only a list is looked into
extract_play_hosts_ListOnly(data) ==
    IF data.type = "list" THEN PlayHosts(load_plays(data), <<>>) ELSE <<>>

extract_play_hosts(data) == PlayHosts(load_plays(data), <<>>)

(***************************************************************************)
(* SpecPlaybook: extract_play_hosts applied to a playbook document         *)
(***************************************************************************)
MaxPlays == 3

\* hosts values: a pattern, one with a blank before it, the first again with a
\* blank after it, and blanks only
HostsValues == {<<"w", "e", "b">>, <<" ", "d", "b">>, <<"w", "e", "b", " ">>, <<" ", "\t">>}

Mappings == {Str(v) : v \in HostsValues} \cup {NoHostsKey}

Documents ==
    {List(q) : q \in UNION {[1..n -> Mappings \cup {NonDict}] : n \in 0..MaxPlays}}
    \cup {Dict(m) : m \in Mappings}
    \cup {Scalar}

PlaybookInit ==
    /\ inp \in Documents
    /\ ParserIdle /\ InventoryIdle /\ FixtureIdle
    /\ self = <<>> /\ log = <<>>
    /\ call = ""
    /\ ret = Return(NoVal)

ExtractPlayHosts ==
    /\ call' = "extract_play_hosts"
    /\ ret' = Return(extract_play_hosts(inp))
    /\ UNCHANGED <<src, text, fields, inv_in, self, inp, log, scope, hist>>

PlaybookNext == ExtractPlayHosts

SpecPlaybook == PlaybookInit /\ [][PlaybookNext]_vars

(***************************************************************************)
(* runner.py: the vagrant commands.  An operation returns [res, log]: its  *)
(* result and the collaborator invocations it made, in order.              *)
(***************************************************************************)
Ev(op, a, b) == [b |-> b, a |-> a, op |-> op]

Out(res, lg) == [res |-> res, log |-> lg]

\* _run: the command is executed; with check, a return code that is not 0 raises
run(cmd, vagrantfile, check, rc) ==
    Out(IF check /\ rc # 0
        THEN Raise("CalledProcessError", "non-zero exit status", <<rc>>)
        ELSE Return(<<rc>>),
        <<Ev("vagrant", cmd, vagrantfile)>>)

LibvirtBins == <<"vagrant", "ansible-playbook", "virsh", "qemu-system-x86_64">>

DefaultBins == <<"vagrant", "ansible-playbook">>

\* mutant: the return code of vagrant up is not checked
up_Unchecked(vagrantfile, provider, installed, rc) ==
    LET bins == IF provider = "libvirt" THEN LibvirtBins ELSE DefaultBins
        rb == require_bins(bins, installed)
    IN  IF ~rb.ok THEN Out(rb, <<>>)
        ELSE run(<<"up", "--provider", provider>>, vagrantfile, FALSE, rc)

up(vagrantfile, provider, installed, rc) ==
    LET bins == IF provider = "libvirt" THEN LibvirtBins ELSE DefaultBins
        args == IF provider = "libvirt" THEN <<"up", "--provider", "libvirt">>
                ELSE IF provider \notin {Absent, None}
                THEN <<"up", "--provider", provider>>
                ELSE <<"up">>
        rb == require_bins(bins, installed)
    IN  IF ~rb.ok THEN Out(rb, <<>>) ELSE run(args, vagrantfile, TRUE, rc)

halt(vagrantfile, rc) == run(<<"halt">>, vagrantfile, FALSE, rc)

destroy(vagrantfile, force, rc) ==
    run(IF force THEN <<"destroy", "-f">> ELSE <<"destroy">>, vagrantfile, FALSE, rc)

\* mutant: the aliases found are not reported
ssh_config_NoAvailable(vagrantfile, host, rc, stdout) ==
    LET cp == run(<<"ssh-config">>, vagrantfile, TRUE, rc)
        hosts == from_ssh_config_multi(stdout)
    IN  IF ~cp.res.ok THEN cp
        ELSE IF host # <<>>
        THEN IF ~Has(hosts, host)
             THEN Out(Raise("ValueError", "Host not found in ssh-config",
                            [host |-> host, available |-> <<>>]), cp.log)
             ELSE Out(Return(Get(hosts, host)), cp.log)
        ELSE Out(from_ssh_config(stdout), cp.log)

\* rc, stdout: what vagrant ssh-config answers
ssh_config(vagrantfile, host, rc, stdout) ==
    LET cp == run(<<"ssh-config">>, vagrantfile, TRUE, rc)
        hosts == from_ssh_config_multi(stdout)
    IN  IF ~cp.res.ok THEN cp
        ELSE IF host # <<>>
        THEN IF ~Has(hosts, host)
             THEN Out(Raise("ValueError", "Host not found in ssh-config",
                            [host |-> host, available |-> hosts.keys]), cp.log)
             ELSE Out(Return(Get(hosts, host)), cp.log)
        ELSE Out(from_ssh_config(stdout), cp.log)

ssh_config_all(vagrantfile, rc, stdout) ==
    LET cp == run(<<"ssh-config">>, vagrantfile, TRUE, rc)
    IN  IF ~cp.res.ok THEN cp ELSE Out(Return(from_ssh_config_multi(stdout)), cp.log)

(***************************************************************************)
(* ansible.py: run_playbook_on_vagrant_hosts                               *)
(***************************************************************************)
\* dict | dict: the right operand wins
Merge(a, b) == [k \in (DOMAIN a) \cup (DOMAIN b) |-> IF k \in DOMAIN b THEN b[k] ELSE a[k]]

NoVars == [k \in {} |-> <<>>]

SshVars(cfg) ==
    [ansible_host |-> cfg.hostname,
     ansible_port |-> cfg.port,
     ansible_user |-> cfg.user,
     ansible_ssh_private_key_file |-> cfg.identityfile,
     ansible_ssh_common_args |-> "-o StrictHostKeyChecking=no -o UserKnownHostsFile=/dev/null",
     ansible_python_interpreter |-> "/usr/bin/python3"]

ArtifactDir == "artifacts"

\* mutant: the connection variables are those of the descriptor stored last
run_playbook_on_vagrant_hosts_LastCfg(playbook, ssh_cfgs, inventory_file, extravars, plays, result) ==
    LET host_patterns == extract_play_hosts(plays)
        inventory_content == build_inventory_content(ssh_cfgs, host_patterns)
        inventory_path == <<ArtifactDir, "inventory.ini">>
        inventory == IF inventory_file # <<>> THEN inventory_file ELSE inventory_path
        ssh_vars == IF inventory_file # <<>> THEN SshVars(ssh_cfgs.map[Len(ssh_cfgs.map)]) ELSE NoVars
        written == IF inventory_file # <<>> THEN <<>>
                   ELSE <<Ev("write", inventory_path, inventory_content)>>
        base_extravars == Merge(extravars, ssh_vars)
        runner == Ev("ansible-runner", <<playbook, inventory>>, base_extravars)
    IN  IF inventory_file # <<>> /\ ssh_cfgs.keys = <<>>
        THEN Out(Raise("StopIteration", "", <<>>), <<>>)
        ELSE IF result.rc # 0 \/ result.status # "successful"
        THEN Out(Raise("RuntimeError", "ansible-runner failed", result), written \o <<runner>>)
        ELSE Out(Return(NoVal), written \o <<runner>>)

\* mutant: the result of ansible-runner is not looked at
run_playbook_on_vagrant_hosts_Unchecked(playbook, ssh_cfgs, inventory_file, extravars, plays, result) ==
    LET inventory_path == <<ArtifactDir, "inventory.ini">>
        written == IF inventory_file # <<>> THEN <<>>
                   ELSE <<Ev("write", inventory_path,
                             build_inventory_content(ssh_cfgs, extract_play_hosts(plays)))>>
        runner == Ev("ansible-runner",
                     <<playbook, IF inventory_file # <<>> THEN inventory_file
                                 ELSE inventory_path>>,
                     Merge(extravars, IF inventory_file # <<>>
                                      THEN SshVars(FirstValue(ssh_cfgs)) ELSE NoVars))
    IN  IF inventory_file # <<>> /\ ssh_cfgs.keys = <<>>
        THEN Out(Raise("StopIteration", "", <<>>), <<>>)
        ELSE Out(Return(NoVal), written \o <<runner>>)

\* mutant: a return code of 0 is success whatever the status
run_playbook_on_vagrant_hosts_RcOnly(playbook, ssh_cfgs, inventory_file, extravars, plays, result) ==
    LET r == run_playbook_on_vagrant_hosts_Unchecked(
                 playbook, ssh_cfgs, inventory_file, extravars, plays, result)
    IN  IF r.res.ok /\ result.rc # 0
        THEN Out(Raise("RuntimeError", "ansible-runner failed", result), r.log)
        ELSE r

\* plays: the playbook document; result: the (status, rc) ansible-runner returns
run_playbook_on_vagrant_hosts(playbook, ssh_cfgs, inventory_file, extravars, plays, result) ==
    LET host_patterns == extract_play_hosts(plays)
        inventory_content == build_inventory_content(ssh_cfgs, host_patterns)
        inventory_path == <<ArtifactDir, "inventory.ini">>
        inventory == IF inventory_file # <<>> THEN inventory_file ELSE inventory_path
        ssh_vars == IF inventory_file # <<>> THEN SshVars(FirstValue(ssh_cfgs)) ELSE NoVars
        written == IF inventory_file # <<>> THEN <<>>
                   ELSE <<Ev("write", inventory_path, inventory_content)>>
        base_extravars == Merge(extravars, ssh_vars)
        runner == Ev("ansible-runner", <<playbook, inventory>>, base_extravars)
    IN  IF inventory_file # <<>> /\ ssh_cfgs.keys = <<>>
        THEN Out(Raise("StopIteration", "", <<>>), <<>>)
        ELSE IF result.rc # 0 \/ result.status # "successful"
        THEN Out(Raise("RuntimeError", "ansible-runner failed", result), written \o <<runner>>)
        ELSE Out(Return(NoVal), written \o <<runner>>)

(***************************************************************************)
(* runner.py: VagrantRunner                                                *)
(***************************************************************************)
\* _host = None and _vagrantfile = None
NoHandle == <<>>

NoPath == <<>>

\* the instance after __init__; the provider is the configured default
NewRunner ==
    [provider |-> "virtualbox", vagrantfile |-> NoPath, host |-> NoHandle,
     hosts |-> EmptyDict, ssh_configs |-> EmptyDict]

\* __init__ raised: there is no instance
NoInstance == <<>>

Made(s, res) == [self |-> s, res |-> res]

\* mutant: one of the two sibling directories is enough
runner_init_Either(dirs) ==
    IF dirs.root /\ (dirs.tests \/ dirs.roles)
    THEN Made(NewRunner, Return(NoVal))
    ELSE Made(NoInstance,
              Raise("AssertionError", "Invalid ansible project layout", <<"proj">>))

\* VagrantRunner.__init__, lines 183-219; dirs: whether the resolved project
\* directory, its tests and its roles are directories on disk
runner_init(dirs) ==
    IF dirs.root /\ dirs.tests /\ dirs.roles
    THEN Made(NewRunner, Return(NoVal))
    ELSE Made(NoInstance,
              Raise("AssertionError", "Invalid ansible project layout", <<"proj">>))

\* testinfra.get_host(f"ssh://{user}@{hostname}:{port}", ssh_identity_file=...)
get_host(cfg) ==
    [uri |-> [scheme |-> "ssh", user |-> cfg.user, hostname |-> cfg.hostname,
              port |-> IntStr(cfg.port)],
     ssh_identity_file |-> cfg.identityfile,
     ssh_extra_args |-> "-o StrictHostKeyChecking=accept-new -o UserKnownHostsFile=/dev/null"]

\* config.getoption("vagrant_file") or config.getini("vagrant_file") or "Vagrantfile"
ConfigVagrantFile == "Vagrantfile"

Done(s, lg, res) == [self |-> s, log |-> lg, res |-> res]

\* the element of a singleton: {e : x \in {v}} is e with the local variable x
\* assigned the value of v
Only(S) == CHOOSE r \in S : TRUE

\* the loop of lines 291-297: self._hosts[name] = host for every handle from the
\* i-th on
RECURSIVE StoreHandles(_, _, _)
StoreHandles(hosts, handles, i) ==
    IF i > Len(handles.keys) THEN hosts
    ELSE StoreHandles(DictSet(hosts, handles.keys[i], handles.map[i]), handles, i + 1)

\* mutant: the playbook is run on every host discovered, target or not
ssh_configs_to_use_All(all_ssh_configs, target_host) == all_ssh_configs

\* lines 276-278: the descriptors the playbook is run on and handles are made for
ssh_configs_to_use(all_ssh_configs, target_host) ==
    IF target_host # <<>>
    THEN [keys |-> <<target_host>>, map |-> <<Get(all_ssh_configs, target_host)>>]
    ELSE all_ssh_configs

\* mutant: without a target, the handle stored last is the primary one
primary_host_Last(hosts, target_host) ==
    IF target_host # <<>> THEN Get(hosts, target_host) ELSE hosts.map[Len(hosts.map)]

\* lines 299-302: the handle stored as self._host, when there is one
primary_host(hosts, target_host) ==
    IF target_host # <<>> THEN Get(hosts, target_host) ELSE FirstValue(hosts)

\* mutant: an alias that was not discovered is taken as no alias at all
provision_Fallback(s, in, playbook, lg, all_ssh_configs) ==
    LET tgt == IF Has(all_ssh_configs, in.target_host) THEN in.target_host ELSE <<>>
    IN  Only({ Only({
        LET made == [i \in 1..Len(handles.keys) |->
                        Ev("get_host", handles.keys[i], handles.map[i])]
            s3 == [s EXCEPT !.hosts = StoreHandles(s.hosts, handles, 1)]
        IN  IF ~rp.res.ok THEN Done(s, lg \o rp.log, rp.res)
            ELSE IF tgt = <<>> /\ s3.hosts.keys = <<>>
            THEN Done(s3, lg \o rp.log, Raise("StopIteration", "", <<>>))
            ELSE Done([s3 EXCEPT !.host = primary_host(s3.hosts, tgt)],
                      lg \o rp.log \o made,
                      Return(primary_host(s3.hosts, tgt)))
        : rp \in {run_playbook_on_vagrant_hosts(
                      playbook, to_use,
                      resolve_inventory_path(in.inventory_file, in.inventory_exists),
                      in.extravars, in.plays, in.result)},
          handles \in {[keys |-> to_use.keys,
                        map |-> [i \in 1..Len(to_use.keys) |-> get_host(to_use.map[i])]]} })
        : to_use \in {ssh_configs_to_use(all_ssh_configs, tgt)} })

\* __call__ from the target check on (lines 270-304); s, lg: the instance and the
\* log once the descriptors are stored
provision(s, in, playbook, lg, all_ssh_configs) ==
    IF in.target_host # <<>> /\ ~Has(all_ssh_configs, in.target_host)
    THEN Done(s, lg, Raise("ValueError", "Host not found",
                           [host |-> in.target_host, available |-> all_ssh_configs.keys]))
    ELSE Only({ Only({
        LET made == [i \in 1..Len(handles.keys) |->
                        Ev("get_host", handles.keys[i], handles.map[i])]
            s3 == [s EXCEPT !.hosts = StoreHandles(s.hosts, handles, 1)]
        IN  IF ~rp.res.ok THEN Done(s, lg \o rp.log, rp.res)
            ELSE IF in.target_host = <<>> /\ s3.hosts.keys = <<>>
            THEN Done(s3, lg \o rp.log, Raise("StopIteration", "", <<>>))
            ELSE Done([s3 EXCEPT !.host = primary_host(s3.hosts, in.target_host)],
                      lg \o rp.log \o made,
                      Return(primary_host(s3.hosts, in.target_host)))
        : rp \in {run_playbook_on_vagrant_hosts(
                      playbook, to_use,
                      resolve_inventory_path(in.inventory_file, in.inventory_exists),
                      in.extravars, in.plays, in.result)},
          handles \in {[keys |-> to_use.keys,
                        map |-> [i \in 1..Len(to_use.keys) |-> get_host(to_use.map[i])]]} })
        : to_use \in {ssh_configs_to_use(all_ssh_configs, in.target_host)} })

\* mutant: the mappings of the earlier call are not emptied
runner_call_NoReset(s, in) ==
    LET vf_abs == <<"proj", IF in.vagrant_file # Absent THEN in.vagrant_file
                            ELSE ConfigVagrantFile>>
        s1 == [s EXCEPT !.vagrantfile = vf_abs]
        provider_to_use == IF in.provider = None THEN s.provider ELSE in.provider
    IN  Only({
        IF ~pb.ok THEN Done(s, <<>>, pb)
        ELSE IF ~in.vagrantfile_exists
        THEN Done(s, <<>>, Raise("FileNotFoundError", "Vagrantfile not found", vf_abs))
        ELSE IF ~u.res.ok THEN Done(s1, u.log, u.res)
        ELSE IF ~d.res.ok THEN Done(s1, u.log \o d.log, d.res)
        ELSE provision([s1 EXCEPT !.ssh_configs = d.res.val], in, pb.val,
                       u.log \o d.log, d.res.val)
        : pb \in {resolve_playbook_path(in.playbook, in.playbook_exists)},
          u \in {up(vf_abs, provider_to_use, in.installed, in.up_rc)},
          d \in {ssh_config_all(vf_abs, in.dump_rc, in.dump)} })

\* mutant: the Vagrantfile path is stored, and the mappings are emptied, before the
\* path is looked for on disk
runner_call_StoreFirst(s, in) ==
    LET vf_abs == <<"proj", IF in.vagrant_file # Absent THEN in.vagrant_file
                            ELSE ConfigVagrantFile>>
        s1 == [s EXCEPT !.vagrantfile = vf_abs, !.hosts = EmptyDict, !.ssh_configs = EmptyDict]
        provider_to_use == IF in.provider = None THEN s.provider ELSE in.provider
    IN  Only({
        IF ~pb.ok THEN Done(s, <<>>, pb)
        ELSE IF ~in.vagrantfile_exists
        THEN Done(s1, <<>>, Raise("FileNotFoundError", "Vagrantfile not found", vf_abs))
        ELSE IF ~u.res.ok THEN Done(s1, u.log, u.res)
        ELSE IF ~d.res.ok THEN Done(s1, u.log \o d.log, d.res)
        ELSE provision([s1 EXCEPT !.ssh_configs = d.res.val], in, pb.val,
                       u.log \o d.log, d.res.val)
        : pb \in {resolve_playbook_path(in.playbook, in.playbook_exists)},
          u \in {up(vf_abs, provider_to_use, in.installed, in.up_rc)},
          d \in {ssh_config_all(vf_abs, in.dump_rc, in.dump)} })

\* VagrantRunner.__call__: the instance, the log and the result after the call
\* with arguments and collaborator answers in
runner_call(s, in) ==
    LET vf_abs == <<"proj", IF in.vagrant_file # Absent THEN in.vagrant_file
                            ELSE ConfigVagrantFile>>
        s1 == [s EXCEPT !.vagrantfile = vf_abs, !.hosts = EmptyDict, !.ssh_configs = EmptyDict]
        provider_to_use == IF in.provider = None THEN s.provider ELSE in.provider
    IN  Only({
        IF ~pb.ok THEN Done(s, <<>>, pb)
        ELSE IF ~in.vagrantfile_exists
        THEN Done(s, <<>>, Raise("FileNotFoundError", "Vagrantfile not found", vf_abs))
        ELSE IF ~u.res.ok THEN Done(s1, u.log, u.res)
        ELSE IF ~d.res.ok THEN Done(s1, u.log \o d.log, d.res)
        ELSE provision([s1 EXCEPT !.ssh_configs = d.res.val], in, pb.val,
                       u.log \o d.log, d.res.val)
        : pb \in {resolve_playbook_path(in.playbook, in.playbook_exists)},
          u \in {up(vf_abs, provider_to_use, in.installed, in.up_rc)},
          d \in {ssh_config_all(vf_abs, in.dump_rc, in.dump)} })

\* the accessors of VagrantRunner
NotInvoked == Raise("RuntimeError", "VagrantRunner has not been invoked yet", <<>>)

runner_host(s) == IF s.host = NoHandle THEN NotInvoked ELSE Return(s.host)

runner_hosts(s) == IF s.hosts.keys = <<>> THEN NotInvoked ELSE Return(s.hosts)

\* mutant: a name that is not there is answered with the primary handle
runner_get_host_Primary(s, name) ==
    IF s.hosts.keys = <<>> THEN NotInvoked
    ELSE IF ~Has(s.hosts, name) THEN Return(s.host)
    ELSE Return(Get(s.hosts, name))

runner_get_host(s, name) ==
    IF s.hosts.keys = <<>> THEN NotInvoked
    ELSE IF ~Has(s.hosts, name)
    THEN Raise("ValueError", "Host not found", [host |-> name, available |-> s.hosts.keys])
    ELSE Return(Get(s.hosts, name))

runner_ssh_configs(s) ==
    IF s.ssh_configs.keys = <<>> THEN NotInvoked ELSE Return(s.ssh_configs)

(***************************************************************************)
(* SpecRunner: one VagrantRunner instance called again and again, and the  *)
(* module-level ssh_config.  An input gives the arguments of the call and  *)
(* what the collaborators answer: the files on disk, the binaries found,   *)
(* the return codes of vagrant, the text vagrant ssh-config prints (as the *)
(* description it is rendered from), the playbook document and the result  *)
(* of ansible-runner.                                                      *)
(***************************************************************************)
AllBins == {"vagrant", "ansible-playbook", "virsh", "qemu-system-x86_64"}

NoDump == NoSource

OneHost == [pre |-> <<>>, blocks |-> <<QuotedBlock(<<"b">>)>>]

TwoHosts == [pre |-> <<>>, blocks |-> <<PlainBlock(<<"b">>), PlainBlock(<<"a">>)>>]

MixedHosts == [pre |-> <<>>, blocks |-> <<BadPortBlock(<<"a">>), PlainBlock(<<"b">>)>>]

Dumps == {NoDump, OneHost, TwoHosts, MixedHosts}

\* the single machine of a Vagrantfile that names none
DefaultBlock ==
    Block(<<"d", "e", "f", "a", "u", "l", "t">>, "Host",
          <<Plain("hostname", <<"1", "2", "7", ".", "0", ".", "0", ".", "1">>),
            Plain("user", <<"v", "a", "g", "r", "a", "n", "t">>),
            Plain("port", <<"2", "2", "2", "2">>), Plain("identityfile", <<"/", "k">>)>>)

DefaultHost == [pre |-> <<>>, blocks |-> <<DefaultBlock>>]

\* target_host / host: absent, or an alias
Targets == {<<>>, <<"a">>, <<"b">>, <<"c">>}

Playbooks ==
    { List(<<>>),
      List(<<Str(<<"w", "e", "b">>)>>),
      List(<<Str(<<"w", "e", "b">>), Str(<<" ", "d", "b">>), NoHostsKey,
             Str(<<"w", "e", "b">>), Str(<<" ">>)>>) }

CallerVars == [app |-> <<"x">>, ansible_port |-> 1]

\* the inventory_file, extravars and playbook document of a call
Arrangements ==
    {[inventory_file |-> Absent, extravars |-> NoVars, plays |-> p] : p \in Playbooks}
    \cup {[inventory_file |-> Absent, extravars |-> CallerVars, plays |-> List(<<>>)]}
    \cup {[inventory_file |-> "hosts.ini", extravars |-> e, plays |-> List(<<>>)] :
              e \in {NoVars, CallerVars}}

Successful == [status |-> "successful", rc |-> 0]

Results ==
    {Successful, [status |-> "failed", rc |-> 2], [status |-> "failed", rc |-> 0],
     [status |-> "successful", rc |-> 1]}

DefaultInput ==
    [playbook |-> "site.yml", playbook_exists |-> TRUE,
     inventory_file |-> Absent, inventory_exists |-> TRUE,
     vagrant_file |-> Absent, vagrantfile_exists |-> TRUE,
     provider |-> None, installed |-> AllBins, up_rc |-> 0,
     dump_rc |-> 0, dump |-> TwoHosts, target_host |-> <<>>,
     extravars |-> NoVars, plays |-> List(<<>>), result |-> Successful]

\* calls that stop before the machines are discovered, or bring them up with
\* another provider or another Vagrantfile
EarlyInputs ==
    {[DefaultInput EXCEPT !.playbook_exists = FALSE, !.vagrantfile_exists = e] : e \in BOOLEAN}
    \cup {[DefaultInput EXCEPT !.vagrant_file = v, !.vagrantfile_exists = e] :
              v \in {Absent, "alt/Vagrantfile"}, e \in BOOLEAN}
    \cup {[DefaultInput EXCEPT !.provider = p, !.installed = i] :
              p \in {None, Absent, "libvirt", "vmware"},
              i \in {AllBins, {"vagrant", "ansible-playbook"}, {"virsh"}}}
    \cup {[DefaultInput EXCEPT !.up_rc = 1], [DefaultInput EXCEPT !.dump_rc = 1]}

\* calls that discover the machines
DiscoveryInputs ==
    {[DefaultInput EXCEPT !.dump = d, !.target_host = t,
                          !.inventory_file = a.inventory_file,
                          !.extravars = a.extravars, !.plays = a.plays] :
         d \in Dumps, t \in Targets \ {<<"c">>}, a \in Arrangements}
    \cup {[DefaultInput EXCEPT !.dump = d, !.target_host = <<"c">>] : d \in Dumps}
    \cup {[DefaultInput EXCEPT !.target_host = t, !.result = r] :
              t \in {<<>>, <<"a">>}, r \in Results}
    \cup {[DefaultInput EXCEPT !.dump = DefaultHost]}

RunnerInputs == EarlyInputs \cup DiscoveryInputs

SshConfigInputs ==
    [vagrantfile : {<<"proj", "Vagrantfile">>}, host : Targets, rc : {0},
     stdout : Dumps]
    \cup {[vagrantfile |-> <<"proj", "Vagrantfile">>, host |-> <<>>, rc |-> 1,
           stdout |-> NoDump]}

\* built: a call of the runner got through the construction of the handles;
\* last: whether the latest call of the runner returned and, if it did, the dump
\* it discovered and the alias it was asked for; layout: what __init__ found on
\* disk; before: the aliases that had a handle stored when the latest call began
NoRun == [ok |-> FALSE, dump |-> NoDump, target_host |-> <<>>]

NoHistory(dirs) == [built |-> FALSE, last |-> NoRun, layout |-> dirs, before |-> <<>>]

\* what is on disk where the project directory was resolved to: nothing, or a
\* directory with or without tests and roles in it
Layouts ==
    {[root |-> FALSE, tests |-> FALSE, roles |-> FALSE]}
    \cup [root : {TRUE}, tests : BOOLEAN, roles : BOOLEAN]

\* the loop over ssh_configs_to_use was left: the call returned, or next() found
\* no handle after the playbook had run
Built(out) ==
    \/ out.res.ok
    \/ /\ out.res.err.type = "StopIteration"
       /\ \E i \in 1..Len(out.log) : out.log[i].op = "ansible-runner"

RunnerInit ==
    /\ ParserIdle /\ InventoryIdle
    /\ scope = <<>>
    /\ inp \in Layouts
    /\ hist = NoHistory(inp)
    /\ self = runner_init(inp).self
    /\ ret = runner_init(inp).res
    /\ log = <<>>
    /\ call = "init"

\* runner(playbook, ...)
RunnerCall ==
    /\ self # NoInstance
    /\ \E in \in RunnerInputs :
        \E printed \in {[in EXCEPT !.dump = Render(in.dump)]} :
          \E out \in {runner_call(self, printed)} :
              /\ inp' = in
              /\ self' = out.self
              /\ log' = out.log
              /\ ret' = out.res
              /\ call' = "run"
              /\ hist' = [hist EXCEPT
                              !.built = hist.built \/ Built(out),
                              !.last = IF out.res.ok
                                       THEN [ok |-> TRUE, dump |-> in.dump,
                                             target_host |-> in.target_host]
                                       ELSE NoRun,
                              !.before = self.hosts.keys]
              /\ UNCHANGED <<src, text, fields, inv_in, scope>>

\* ssh_config(vagrantfile, host)
SshConfigCall ==
    \E in \in SshConfigInputs :
      \E stdout \in {Render(in.stdout)} :
        \E out \in {ssh_config(in.vagrantfile, in.host, in.rc, stdout)} :
            /\ inp' = in
            /\ log' = out.log
            /\ ret' = out.res
            /\ call' = "ssh_config"
            /\ UNCHANGED <<src, text, fields, inv_in, self, scope, hist>>

\* an accessor leaves the instance as it is
Accessed(name, res, arg) ==
    /\ self # NoInstance
    /\ call' = name
    /\ ret' = res
    /\ inp' = arg
    /\ log' = <<>>
    /\ UNCHANGED <<src, text, fields, inv_in, self, scope, hist>>

AccessHost == Accessed("host", runner_host(self), <<>>)

AccessHosts == Accessed("hosts", runner_hosts(self), <<>>)

AccessGetHost ==
    \E name \in Targets \ {<<>>} :
        Accessed("get_host", runner_get_host(self, name), [name |-> name])

AccessSshConfigs == Accessed("ssh_configs", runner_ssh_configs(self), <<>>)

RunnerNext ==
    \/ RunnerCall
    \/ SshConfigCall
    \/ AccessHost
    \/ AccessHosts
    \/ AccessGetHost
    \/ AccessSshConfigs

SpecRunner == RunnerInit /\ [][RunnerNext]_vars

(***************************************************************************)
(* vagrant.py: the commands main.py imports.  halt and destroy are those   *)
(* of runner.py word for word; up always asks for libvirt; ssh_config      *)
(* parses the first host block only.                                       *)
(***************************************************************************)
\* the loop of vagrant.py's _from_ssh_config: the fields of the first block
RECURSIVE FirstBlockFields(_, _, _)
FirstBlockFields(lines, in_block, fs) ==
    IF lines = <<>> THEN fs
    ELSE IF PAT_HOST(lines[1]).matched
    THEN IF ~in_block THEN FirstBlockFields(Tail(lines), TRUE, fs) ELSE fs
    ELSE IF ~in_block \/ ~PAT_KV(lines[1]).matched
    THEN FirstBlockFields(Tail(lines), in_block, fs)
    ELSE FirstBlockFields(Tail(lines), in_block,
                          SetField(fs, Lower(PAT_KV(lines[1]).g1),
                                   Unquote(Strip(PAT_KV(lines[1]).g2))))

vagrant_from_ssh_config(t) == parse_ssh_config_block(FirstBlockFields(t, FALSE, NoFields))

vagrant_up(vagrantfile, installed, rc) ==
    LET rb == require_bins(LibvirtBins, installed)
    IN  IF ~rb.ok THEN Out(rb, <<>>)
        ELSE run(<<"up", "--provider", "libvirt">>, vagrantfile, TRUE, rc)

vagrant_ssh_config(vagrantfile, rc, stdout) ==
    LET cp == run(<<"ssh-config">>, vagrantfile, TRUE, rc)
    IN  IF ~cp.res.ok THEN cp ELSE Out(vagrant_from_ssh_config(stdout), cp.log)

(***************************************************************************)
(* main.py: the vagrant_run fixture                                        *)
(***************************************************************************)
\* str.lower() on the words of a vagrant_shutdown value
LowerMode(w) ==
    CASE w \in {"halt", "HALT", "Halt"} -> "halt"
      [] w \in {"destroy", "DESTROY"} -> "destroy"
      [] w \in {"none", "NONE"} -> "none"
      [] OTHER -> w

ShutdownModes == {"halt", "destroy", "none"}

\* mutant: the ini value is taken before the option
resolve_shutdown_mode_IniFirst(cli, ini) ==
    LET given == Strip(IF ini # <<>> THEN ini ELSE cli)
        raw == [i \in 1..Len(given) |-> LowerMode(given[i])]
    IN  IF raw = <<>> THEN Return(<<"destroy">>)
        ELSE IF Len(raw) = 1 /\ raw[1] \in ShutdownModes THEN Return(raw)
        ELSE Raise("UsageError", "Invalid vagrant_shutdown", raw)

\* cli, ini: the --vagrant-shutdown option (<<>> when not given) and the ini value
resolve_shutdown_mode(cli, ini) ==
    LET given == Strip(IF cli # <<>> THEN cli ELSE ini)
        raw == [i \in 1..Len(given) |-> LowerMode(given[i])]
    IN  IF raw = <<>> THEN Return(<<"destroy">>)
        ELSE IF Len(raw) = 1 /\ raw[1] \in ShutdownModes THEN Return(raw)
        ELSE Raise("UsageError", "Invalid vagrant_shutdown", raw)

\* the closure when the fixture is set up: vf_abs = None
NewScope(config) == [vf_abs |-> NoPath, config |-> config, torn |-> FALSE]

Left(sc, lg, res) == [scope |-> sc, log |-> lg, res |-> res]

\* _runner, lines 120-160.  The call of run_playbook_on_vagrant_host (146-152)
\* passes no artifact_dir, a keyword-only parameter without default
\* (ansible.py:45-53): the call raises TypeError and lines 154-158 are not reached.
fixture_runner(sc, in) ==
    LET vf_abs == <<"proj", IF in.vagrant_file # Absent THEN in.vagrant_file
                            ELSE ConfigVagrantFile>>
        sc1 == [sc EXCEPT !.vf_abs = vf_abs]
    IN  Only({
        IF ~pb.ok THEN Left(sc, <<>>, pb)
        ELSE IF ~in.vagrantfile_exists
        THEN Left(sc1, <<>>, Raise("FileNotFoundError", "Vagrantfile not found", vf_abs))
        ELSE IF ~u.res.ok THEN Left(sc1, u.log, u.res)
        ELSE IF ~cfg.res.ok THEN Left(sc1, u.log \o cfg.log, cfg.res)
        ELSE Left(sc1, u.log \o cfg.log,
                  Raise("TypeError", "missing required keyword-only argument",
                        <<"artifact_dir">>))
        : pb \in {resolve_playbook_path(in.playbook, in.playbook_exists)},
          u \in {vagrant_up(vf_abs, in.installed, in.up_rc)},
          cfg \in {vagrant_ssh_config(vf_abs, in.dump_rc, in.dump)} })

\* mutant: the commands of teardown run with check
teardown_Checked(sc, rc) ==
    LET mode == resolve_shutdown_mode(sc.config.cli, sc.config.ini)
    IN  IF sc.vf_abs = NoPath THEN Out(Return(NoVal), <<>>)
        ELSE IF ~mode.ok THEN Out(mode, <<>>)
        ELSE IF mode.val = <<"halt">> THEN run(<<"halt">>, sc.vf_abs, TRUE, rc)
        ELSE IF mode.val = <<"destroy">> THEN run(<<"destroy", "-f">>, sc.vf_abs, TRUE, rc)
        ELSE Out(Return(NoVal), <<>>)

\* mutant: DESTROY is applied whatever the mode
teardown_Destroy(sc, rc) ==
    IF sc.vf_abs = NoPath THEN Out(Return(NoVal), <<>>)
    ELSE Out(Return(NoVal), destroy(sc.vf_abs, TRUE, rc).log)

\* mutant: with no vf_abs the configured Vagrantfile is torn down
teardown_Default(sc, rc) ==
    Out(Return(NoVal),
        destroy(IF sc.vf_abs = NoPath THEN <<"proj", ConfigVagrantFile>> ELSE sc.vf_abs,
                TRUE, rc).log)

\* the finally clause, lines 162-173; rc: what vagrant halt or destroy answers
teardown(sc, rc) ==
    LET mode == resolve_shutdown_mode(sc.config.cli, sc.config.ini)
    IN  IF sc.vf_abs = NoPath THEN Out(Return(NoVal), <<>>)
        ELSE IF ~mode.ok THEN Out(mode, <<>>)
        ELSE IF mode.val = <<"halt">> THEN Out(Return(NoVal), halt(sc.vf_abs, rc).log)
        ELSE IF mode.val = <<"destroy">>
        THEN Out(Return(NoVal), destroy(sc.vf_abs, TRUE, rc).log)
        ELSE Out(Return(NoVal), <<>>)

(***************************************************************************)
(* SpecFixture: one scope of the vagrant_run fixture: calls of _runner,    *)
(* then the teardown at scope exit.                                        *)
(***************************************************************************)
\* --vagrant-shutdown (argparse admits the three mode names only) and the ini
\* value, "destroy" unless the project sets another
ShutdownConfigs ==
    { [cli |-> <<>>, ini |-> <<"destroy">>],
      [cli |-> <<>>, ini |-> <<" ", "HALT", " ">>],
      [cli |-> <<>>, ini |-> <<"none">>],
      [cli |-> <<>>, ini |-> <<>>],
      [cli |-> <<>>, ini |-> <<"bogus">>],
      [cli |-> <<"halt">>, ini |-> <<"none">>],
      [cli |-> <<"none">>, ini |-> <<"destroy">>] }

DefaultFixtureInput ==
    [playbook |-> "site.yml", playbook_exists |-> TRUE,
     vagrant_file |-> Absent, vagrantfile_exists |-> TRUE,
     installed |-> AllBins, up_rc |-> 0, dump_rc |-> 0, dump |-> OneHost]

FixtureInputs ==
    {[DefaultFixtureInput EXCEPT !.playbook_exists = FALSE]}
    \cup {[DefaultFixtureInput EXCEPT !.vagrant_file = v, !.vagrantfile_exists = e] :
              v \in {Absent, "alt/Vagrantfile"}, e \in BOOLEAN}
    \cup {[DefaultFixtureInput EXCEPT !.installed = {"vagrant", "ansible-playbook"}]}
    \cup {[DefaultFixtureInput EXCEPT !.vagrant_file = v, !.up_rc = 1] :
              v \in {Absent, "alt/Vagrantfile"}}
    \cup {[DefaultFixtureInput EXCEPT !.dump_rc = 1]}
    \cup {[DefaultFixtureInput EXCEPT !.dump = d] : d \in {NoDump, TwoHosts, MixedHosts}}

\* calls are counted up to here
MaxCounted == 2

\* runs: the calls of _runner so far; resolved: the Vagrantfile path the latest
\* call that found its playbook asked for; reached: the Vagrantfiles up() was
\* called on; started: those vagrant up was invoked on
NoFixtureHistory == [runs |-> 0, resolved |-> NoPath, reached |-> {}, started |-> {}]

AskedFile(in) ==
    <<"proj", IF in.vagrant_file = Absent THEN "Vagrantfile" ELSE in.vagrant_file>>

UpFiles(lg) == {lg[i].b : i \in {j \in 1..Len(lg) : lg[j].op = "vagrant" /\ lg[j].a[1] = "up"}}

FixtureInit ==
    /\ ParserIdle /\ InventoryIdle
    /\ self = <<>>
    /\ scope \in {NewScope(c) : c \in ShutdownConfigs}
    /\ hist = NoFixtureHistory
    /\ inp = <<>>
    /\ log = <<>>
    /\ call = "init"
    /\ ret = Return(NoVal)

\* a test calls the function the fixture yielded
FixtureRun ==
    /\ ~scope.torn
    /\ \E in \in FixtureInputs :
         \E printed \in {[in EXCEPT !.dump = Render(in.dump)]} :
           \E out \in {fixture_runner(scope, printed)} :
               /\ inp' = in
               /\ scope' = out.scope
               /\ log' = out.log
               /\ ret' = out.res
               /\ call' = "run"
               /\ hist' = [runs |-> IF hist.runs < MaxCounted THEN hist.runs + 1
                                        ELSE hist.runs,
                           resolved |-> IF in.playbook_exists THEN AskedFile(in)
                                        ELSE hist.resolved,
                           reached |-> IF in.playbook_exists /\ in.vagrantfile_exists
                                       THEN hist.reached \cup {AskedFile(in)}
                                       ELSE hist.reached,
                           started |-> hist.started \cup UpFiles(out.log)]
               /\ UNCHANGED <<src, text, fields, inv_in, self>>

\* the scope is left: the finally clause runs, once
Teardown ==
    /\ ~scope.torn
    /\ \E rc \in {0, 1} :
         \E out \in {teardown(scope, rc)} :
             /\ inp' = [rc |-> rc]
             /\ scope' = [scope EXCEPT !.torn = TRUE]
             /\ log' = out.log
             /\ ret' = out.res
             /\ call' = "teardown"
             /\ UNCHANGED <<src, text, fields, inv_in, self, hist>>

FixtureNext == FixtureRun \/ Teardown

SpecFixture == FixtureInit /\ [][FixtureNext]_vars

(***************************************************************************)
(* SpecShutdown: _resolve_shutdown_mode applied to a configuration.  A     *)
(* value is a sequence of blanks and words.                                *)
(***************************************************************************)
\* --vagrant-shutdown: not given, or one of the choices of the option
CliValues == {<<>>, <<"halt">>, <<"destroy">>, <<"none">>}

\* vagrant_shutdown of the ini file: anything the project writes
IniValues ==
    { <<>>, <<" ">>, <<" ", "\t">>, <<"destroy">>, <<"DESTROY">>, <<"halt">>, <<"Halt">>,
      <<" ", "HALT", " ">>, <<"none">>, <<"NONE", " ">>, <<"bogus">>, <<" ", "bogus">>,
      <<"halt", " ", "destroy">>, <<"stop">> }

ShutdownInit ==
    /\ inp \in [cli : CliValues, ini : IniValues]
    /\ ParserIdle /\ InventoryIdle /\ FixtureIdle
    /\ self = <<>> /\ log = <<>>
    /\ call = ""
    /\ ret = Return(NoVal)

ResolveShutdownMode ==
    /\ call' = "resolve_shutdown_mode"
    /\ ret' = resolve_shutdown_mode(inp.cli, inp.ini)
    /\ UNCHANGED <<src, text, fields, inv_in, self, inp, log, scope, hist>>

ShutdownNext == ResolveShutdownMode

SpecShutdown == ShutdownInit /\ [][ShutdownNext]_vars

(***************************************************************************)
(* What a text says, read off the block descriptions it was written from   *)
(***************************************************************************)
ItemsOf(b, k) == SelectSeq(b.items, LAMBDA it : it.key = k)

Carries(b, k) == ItemsOf(b, k) # <<>>

\* the value the block gives key k: that of its last k line, without the quotes
Written(b, k) == ItemsOf(b, k)[Len(ItemsOf(b, k))].val

\* the Port values of the texts that are integers, with the integer each denotes
PortTable ==
    { <<<<"2", "2", "2", "2">>, 2222>>, <<<<"2", "3">>, 23>>, <<<<"2", "2">>, 22>>,
      <<<<"8", "0">>, 80>>, <<<<"-", "5">>, 0 - 5>>, <<<<"0">>, 0>>,
      <<<<" ", "2", "2", "2", "2", " ">>, 2222>>, <<<<" ", "2", "3", " ">>, 23>> }

IsPortNumber(v) == \E e \in PortTable : e[1] = v

PortNumber(v) == (CHOOSE e \in PortTable : e[1] = v)[2]

AllKeys(b) == \A k \in KeySet : Carries(b, k)

FullBlock(b) == AllKeys(b) /\ IsPortNumber(Written(b, "port"))

Described(b) ==
    SSHConfig(Written(b, "hostname"), PortNumber(Written(b, "port")),
              Written(b, "user"), Written(b, "identityfile"))

DisplayNames == <<"HostName", "User", "Port", "IdentityFile">>

KeyOfName(n) ==
    CASE n = "HostName" -> "hostname"
      [] n = "User" -> "user"
      [] n = "Port" -> "port"
      [] n = "IdentityFile" -> "identityfile"

\* the validation error a block that is not full calls for
BlockError(b) ==
    IF AllKeys(b)
    THEN Raise("ValueError", "ssh-config invalid Port", Written(b, "port"))
    ELSE Raise("ValueError", "ssh-config missing",
               SelectSeq(DisplayNames, LAMBDA n : ~Carries(b, KeyOfName(n))))

NoValidBlocks == Raise("ValueError", "ssh-config contains no valid host blocks", <<>>)

UniqueAlias(i) ==
    \A j \in 1..Len(src.blocks) : j # i => src.blocks[j].alias # src.blocks[i].alias

(***************************************************************************)
(* Claims on the parser                                                    *)
(***************************************************************************)
\* C1: parse_one on a single-host text whose block carries all four keys with an
\* integer port returns the descriptor of the values written in the text, quotes
\* removed, the port as an integer.
C1_ParseOneReturnsWrittenFields ==
    (call = "parse_one" /\ Len(src.blocks) = 1 /\ FullBlock(src.blocks[1]))
        => ret = Return(Described(src.blocks[1]))

C1_Witness ==
    /\ call = "parse_one"
    /\ Len(src.blocks) = 1
    /\ FullBlock(src.blocks[1])
    /\ \E i \in 1..Len(src.blocks[1].items) : src.blocks[1].items[i].q = DQ
    /\ ret.ok
    /\ ret.val.port = 2222

\* C2: parse_all on a text of two or more full blocks with distinct aliases returns
\* one entry per block, keyed by the block's alias, holding that block's own fields.
C2_ParseAllOneEntryPerBlock ==
    ( /\ call = "parse_all"
      /\ Len(src.blocks) >= 2
      /\ \A i \in 1..Len(src.blocks) : FullBlock(src.blocks[i]) /\ UniqueAlias(i) )
        => /\ Len(ret.val.keys) = Len(src.blocks)
           /\ \A i \in 1..Len(src.blocks) :
                 /\ Has(ret.val, src.blocks[i].alias)
                 /\ Get(ret.val, src.blocks[i].alias) = Described(src.blocks[i])

C2_Witness ==
    /\ call = "parse_all"
    /\ Len(src.blocks) = 2
    /\ \A i \in 1..2 : FullBlock(src.blocks[i]) /\ UniqueAlias(i)
    /\ Len(ret.val.keys) = 2
    /\ ret.val.map[1].port # ret.val.map[2].port

C4_ParseOneRaisesBlockError ==
    ( /\ call = "parse_one"
      /\ src.blocks # <<>>
      /\ \A i \in 1..Len(src.blocks) : ~FullBlock(src.blocks[i]) )
        => \E i \in 1..Len(src.blocks) : ret = BlockError(src.blocks[i])

C6_MissingKeysNamedInOrder ==
    (call = "parse_block" /\ DOMAIN fields # KeySet)
        => ret = Raise("ValueError", "ssh-config missing",
                       SelectSeq(DisplayNames, LAMBDA n : KeyOfName(n) \notin DOMAIN fields))

C6_Witness ==
    /\ call = "parse_block"
    /\ DOMAIN fields = {"port", "user"}
    /\ fields["port"] = <<"x">>
    /\ ret.err.detail = <<"HostName", "IdentityFile">>

\* C7: block validation of a field dict with all four keys and a Port that is not
\* an integer raises an error naming that literal value and returns no descriptor.
C7_InvalidPortNamesValue ==
    (call = "parse_block" /\ DOMAIN fields = KeySet /\ ~IsPortNumber(fields["port"]))
        => /\ ~ret.ok
           /\ ret = Raise("ValueError", "ssh-config invalid Port", fields["port"])

C7_Witness ==
    /\ call = "parse_block"
    /\ DOMAIN fields = KeySet
    /\ fields["port"] = <<"x">>
    /\ ~ret.ok
    /\ ret.err.detail = <<"x">>

\* C8: parse_all never raises, and its result has the entry of every full block
\* whose alias no other block declares, and no entry for a block that fails
\* validation, whatever blocks surround it.
C8_InvalidBlocksAreLeftOut ==
    call = "parse_all"
        => /\ ret.ok
           /\ \A i \in 1..Len(src.blocks) :
                 UniqueAlias(i) =>
                    IF FullBlock(src.blocks[i])
                    THEN /\ Has(ret.val, src.blocks[i].alias)
                         /\ Get(ret.val, src.blocks[i].alias) = Described(src.blocks[i])
                    ELSE ~Has(ret.val, src.blocks[i].alias)

C8_Witness ==
    /\ call = "parse_all"
    /\ Len(src.blocks) = 2
    /\ ~FullBlock(src.blocks[1])
    /\ Carries(src.blocks[1], "port")
    /\ FullBlock(src.blocks[2])
    /\ UniqueAlias(1)
    /\ ret.ok
    /\ ret.val.keys = <<src.blocks[2].alias>>

\* the ports a descriptor may hold
PortRange == 1..65535

\* a descriptor whose hostname and user are not empty and whose port is in range
ValidDescriptor(cfg) ==
    cfg.hostname # <<>> /\ cfg.user # <<>> /\ cfg.port \in PortRange

\* C29: every descriptor the parser returns, as a value of parse_all or as the
\* result of parse_one, has a hostname and a user that are not empty and a port
\* from 1 to 65535.  (The code takes any value that is present and any integer:
\* HostName "", a User of blanks, Port 0 and Port -5 all give a descriptor.)
C29_DescriptorsValid ==
    /\ (call = "parse_all" /\ ret.ok)
          => \A i \in 1..Len(ret.val.map) : ValidDescriptor(ret.val.map[i])
    /\ (call = "parse_one" /\ ret.ok) => ValidDescriptor(ret.val)

(***************************************************************************)
(* Claims on the inventory                                                 *)
(***************************************************************************)
\* the decimal text of the ports of ConfigsOf
PortText(n) == IF n = 2222 THEN <<"2", "2", "2", "2">> ELSE <<"2", "2">>

\* C10: with exactly one descriptor and a pattern list that is not empty, the
\* inventory has one host line per pattern, in order, named by the pattern and not
\* by the alias, each with the host, port, user and key file of that descriptor.
C10_OneDescriptorInlinePerPattern ==
    ( /\ call = "build_inventory"
      /\ Len(inv_in.ssh_configs.keys) = 1
      /\ inv_in.host_patterns # <<>> )
        => /\ Len(ret.val.lines) = Len(inv_in.host_patterns)
           /\ \A i \in 1..Len(inv_in.host_patterns) :
                 LET ln == ret.val.lines[i]
                     cfg == inv_in.ssh_configs.map[1]
                 IN  /\ ln.name = inv_in.host_patterns[i]
                     /\ ln.ansible_host = cfg.hostname
                     /\ ln.ansible_port = PortText(cfg.port)
                     /\ ln.ansible_user = cfg.user
                     /\ ln.ansible_ssh_private_key_file = cfg.identityfile

C10_Witness ==
    /\ call = "build_inventory"
    /\ inv_in.ssh_configs.keys = <<<<"a">>>>
    /\ inv_in.host_patterns = <<<<"w", "e", "b">>>>
    /\ Len(ret.val.lines) = 1
    /\ ret.val.lines[1].name = <<"w", "e", "b">>
    /\ ret.val.lines[1].ansible_port = <<"2", "2", "2", "2">>

\* C11: with no descriptor, with two or more descriptors, or with no pattern, the
\* inventory is the one group [vagrant] with exactly one line per alias of the
\* mapping, in mapping order, each with that alias's own host, port, user and key
\* file, whatever the number of patterns.
C11_OneLinePerAlias ==
    ( /\ call = "build_inventory"
      /\ \/ Len(inv_in.ssh_configs.keys) # 1
         \/ inv_in.host_patterns = <<>> )
        => /\ ret.ok
           /\ ret.val.group = "[vagrant]"
           /\ Len(ret.val.lines) = Len(inv_in.ssh_configs.keys)
           /\ \A i \in 1..Len(inv_in.ssh_configs.keys) :
                 LET ln == ret.val.lines[i]
                     cfg == inv_in.ssh_configs.map[i]
                 IN  /\ ln.name = inv_in.ssh_configs.keys[i]
                     /\ ln.ansible_host = cfg.hostname
                     /\ ln.ansible_port = PortText(cfg.port)
                     /\ ln.ansible_user = cfg.user
                     /\ ln.ansible_ssh_private_key_file = cfg.identityfile

C11_Witness ==
    /\ call = "build_inventory"
    /\ inv_in.ssh_configs.keys = <<<<"b">>, <<"a">>>>
    /\ Len(inv_in.host_patterns) = 2
    /\ inv_in.ssh_configs.map[1].port # inv_in.ssh_configs.map[2].port
    /\ Len(ret.val.lines) = 2
    /\ ret.val.lines[1].name = <<"b">>
    /\ ret.val.lines[2].ansible_host = inv_in.ssh_configs.map[2].hostname

(***************************************************************************)
(* Claims on the runner                                                    *)
(***************************************************************************)
\* the aliases a dump gives a full block, in the order of their first full block
RECURSIVE ValidAliases(_, _)
ValidAliases(bs, out) ==
    IF bs = <<>> THEN out
    ELSE ValidAliases(Tail(bs),
                      IF FullBlock(bs[1]) /\ \A i \in 1..Len(out) : out[i] # bs[1].alias
                      THEN Append(out, bs[1].alias) ELSE out)

Listed(d, a) == \E i \in 1..Len(ValidAliases(d.blocks, <<>>)) : ValidAliases(d.blocks, <<>>)[i] = a

\* the binaries the provider of the call needs are found
BinsFound ==
    (IF inp.provider = "libvirt" THEN AllBins ELSE {"vagrant", "ansible-playbook"})
        \subseteq inp.installed

\* the call got as far as parsing the dump of vagrant ssh-config
Discovered ==
    /\ call = "run"
    /\ inp.playbook_exists /\ inp.vagrantfile_exists
    /\ BinsFound /\ inp.up_rc = 0 /\ inp.dump_rc = 0

\* C9: asking for an alias that is not a key of the parsed mapping, through
\* ssh_config(vagrantfile, host=alias) or through a run with target_host=alias,
\* fails with an error that names the alias and lists the aliases of the parsed
\* mapping, all of them and no other, in mapping order.
C9_AbsentAliasListsAvailable ==
    /\ ( /\ call = "ssh_config" /\ inp.rc = 0
         /\ inp.host # <<>> /\ ~Listed(inp.stdout, inp.host) )
          => /\ ~ret.ok
             /\ ret.err.type = "ValueError"
             /\ ret.err.msg = "Host not found in ssh-config"
             /\ ret.err.detail = [host |-> inp.host,
                                  available |-> ValidAliases(inp.stdout.blocks, <<>>)]
    /\ ( /\ Discovered
         /\ inp.target_host # <<>> /\ ~Listed(inp.dump, inp.target_host) )
          => /\ ~ret.ok
             /\ ret.err.type = "ValueError"
             /\ ret.err.msg = "Host not found"
             /\ ret.err.detail = [host |-> inp.target_host,
                                  available |-> ValidAliases(inp.dump.blocks, <<>>)]

C9_Witness ==
    /\ Discovered
    /\ inp.target_host = <<"c">>
    /\ inp.dump = TwoHosts
    /\ ~ret.ok
    /\ ret.err.detail.available = <<<<"b">>, <<"a">>>>

Accessors == {"host", "hosts", "get_host", "ssh_configs"}

\* C12: as long as no call of the runner has got through the construction of the
\* handles (it was never called, or every call failed before), each of host,
\* hosts, get_host and ssh_configs raises the not-invoked error.
C12_AccessorsRaiseBeforeBuilt ==
    (call \in Accessors /\ ~hist.built) => ret = NotInvoked

\* the target set of a call: the requested alias, or every alias discovered
TargetSet(in) ==
    IF in.target_host # <<>> THEN <<in.target_host>> ELSE ValidAliases(in.dump.blocks, <<>>)

InSeq(q, x) == \E i \in 1..Len(q) : q[i] = x

\* the full block a dump gives alias a (the aliases of a dump are distinct)
BlockOf(d, a) == d.blocks[CHOOSE i \in 1..Len(d.blocks) : d.blocks[i].alias = a]

\* the handle for a block: ssh://user@hostname:port with the block's key file
HandleOf(b) ==
    [uri |-> [scheme |-> "ssh", user |-> Written(b, "user"),
              hostname |-> Written(b, "hostname"), port |-> Written(b, "port")],
     ssh_identity_file |-> Written(b, "identityfile"),
     ssh_extra_args |-> "-o StrictHostKeyChecking=accept-new -o UserKnownHostsFile=/dev/null"]

\* C13: when the latest run returned, get_host(name) for a name outside that run's
\* target set raises a not-found error listing exactly the aliases of the target
\* set, and for a name in the target set returns that alias's handle.
C13_GetHostAfterRun ==
    (call = "get_host" /\ hist.last.ok)
        => IF InSeq(TargetSet(hist.last), inp.name)
           THEN ret = Return(HandleOf(BlockOf(hist.last.dump, inp.name)))
           ELSE ret = Raise("ValueError", "Host not found",
                            [host |-> inp.name, available |-> TargetSet(hist.last)])

C13_Witness ==
    /\ call = "get_host"
    /\ hist.last.ok
    /\ hist.last.dump = TwoHosts
    /\ hist.last.target_host = <<"a">>
    /\ inp.name = <<"b">>
    /\ ~ret.ok
    /\ ret.err.detail.available = <<<<"a">>>>

\* the invocations of the latest operation
IsVagrant(ev, cmd) == ev.op = "vagrant" /\ ev.a[1] = cmd

UpBefore(i) == \E j \in 1..(i - 1) : IsVagrant(log[j], "up")

DumpBefore(i) == \E j \in 1..(i - 1) : IsVagrant(log[j], "ssh-config")

PlaybookBefore(i) == \E j \in 1..(i - 1) : log[j].op = "ansible-runner"

\* C19: within one run, vagrant ssh-config is not invoked before vagrant up has
\* returned 0, ansible-runner is not invoked before the dump was obtained and the
\* requested alias was found in it, and no handle is made before ansible-runner
\* has reported success.
C19_StepsInOrder ==
    call = "run" =>
        \A i \in 1..Len(log) :
            /\ IsVagrant(log[i], "ssh-config")
                  => UpBefore(i) /\ inp.up_rc = 0
            /\ log[i].op = "ansible-runner"
                  => /\ DumpBefore(i)
                     /\ inp.dump_rc = 0
                     /\ inp.target_host # <<>> => Listed(inp.dump, inp.target_host)
            /\ log[i].op = "get_host"
                  => /\ PlaybookBefore(i)
                     /\ inp.result = Successful

C19_Witness ==
    /\ call = "run"
    /\ ret.ok
    /\ inp.target_host = <<"a">>
    /\ Len(log) = 5
    /\ IsVagrant(log[1], "up") /\ IsVagrant(log[2], "ssh-config")
    /\ log[3].op = "write" /\ log[4].op = "ansible-runner" /\ log[5].op = "get_host"

\* C20: when vagrant up returns a code that is not 0, the run raises the command
\* failure, invokes neither vagrant ssh-config nor ansible-runner, makes no handle,
\* and leaves the runner without descriptors and without handles.
C20_StartFailureStopsRun ==
    ( /\ call = "run"
      /\ inp.playbook_exists /\ inp.vagrantfile_exists
      /\ BinsFound /\ inp.up_rc # 0 )
        => /\ ret = Raise("CalledProcessError", "non-zero exit status", <<inp.up_rc>>)
           /\ Len(log) = 1 /\ IsVagrant(log[1], "up")
           /\ self.ssh_configs = EmptyDict
           /\ self.hosts = EmptyDict

C20_Witness ==
    /\ call = "run"
    /\ inp.up_rc = 1
    /\ hist.built
    /\ ~ret.ok
    /\ ret.err.type = "CalledProcessError"
    /\ self.ssh_configs = EmptyDict

\* the Vagrantfile path a call of the runner resolves
ResolvedFile(in) ==
    <<"proj", IF in.vagrant_file = Absent THEN "Vagrantfile" ELSE in.vagrant_file>>

\* C21: a run that found its playbook and whose resolved Vagrantfile path is not
\* on disk raises "Vagrantfile not found" naming that path, invokes no vagrant
\* command, no ansible-runner and no get_host, and leaves the instance (stored
\* Vagrantfile path, descriptors, handles) as it was before the call.
C21_MissingVagrantfileStopsRun ==
    [][ (call' = "run" /\ inp'.playbook_exists /\ ~inp'.vagrantfile_exists)
            => /\ ret' = Raise("FileNotFoundError", "Vagrantfile not found",
                               ResolvedFile(inp'))
               /\ log' = <<>>
               /\ self' = self ]_vars

C21_Witness ==
    /\ call = "run"
    /\ inp.playbook_exists /\ ~inp.vagrantfile_exists
    /\ inp.vagrant_file = "alt/Vagrantfile"
    /\ ~ret.ok
    /\ ret.err.type = "FileNotFoundError"
    /\ self.vagrantfile = <<"proj", "Vagrantfile">>
    /\ self.hosts.keys = <<<<"b">>, <<"a">>>>
    /\ self.ssh_configs.keys = <<<<"b">>, <<"a">>>>

LayoutError == Raise("AssertionError", "Invalid ansible project layout", <<"proj">>)

\* C22: constructing the runner raises "Invalid ansible project layout" whenever
\* the resolved project directory is no directory, has no tests directory or has
\* no roles directory, and then there is no instance: no run and no accessor is
\* ever applied, so the runner invokes no vagrant command; with the directory and
\* both of tests and roles on disk the construction returns an instance.
C22_ConstructionChecksLayout ==
    IF hist.layout = [root |-> TRUE, tests |-> TRUE, roles |-> TRUE]
    THEN /\ self # NoInstance
         /\ call = "init" => ret = Return(NoVal)
    ELSE /\ self = NoInstance
         /\ call = "init" => (ret = LayoutError /\ log = <<>>)
         /\ call \notin {"run"} \cup Accessors

C22_Witness ==
    /\ call = "init"
    /\ hist.layout = [root |-> TRUE, tests |-> TRUE, roles |-> FALSE]
    /\ ret = LayoutError
    /\ self = NoInstance

\* the binaries the provider of the call requires, in the order they are required
RequiredOrder ==
    IF inp.provider = "libvirt"
    THEN <<"vagrant", "ansible-playbook", "virsh", "qemu-system-x86_64">>
    ELSE <<"vagrant", "ansible-playbook">>

\* C23: when a run reaches the start of the provider and some required binary is
\* not found, one error is raised that lists every missing binary, in the order
\* required, and no binary that is found, and no vagrant command is invoked; when
\* all are found, vagrant up is invoked.
C23_MissingBinariesListed ==
    (call = "run" /\ inp.playbook_exists /\ inp.vagrantfile_exists)
        => IF BinsFound
           THEN log # <<>> /\ IsVagrant(log[1], "up")
           ELSE /\ ret = Raise("RuntimeError", "Missing required binaries",
                               SelectSeq(RequiredOrder, LAMBDA b : b \notin inp.installed))
                /\ log = <<>>

C23_Witness ==
    /\ call = "run"
    /\ inp.provider = "libvirt"
    /\ inp.installed = {"virsh"}
    /\ ~ret.ok
    /\ ret.err.detail = <<"vagrant", "ansible-playbook", "qemu-system-x86_64">>
    /\ log = <<>>

\* ansible-runner was invoked in the call
PlaybookRan == call = "run" /\ \E i \in 1..Len(log) : log[i].op = "ansible-runner"

\* C24: a result of ansible-runner is success only when its status is
\* "successful" and its return code is 0; for every other pair, a "successful"
\* status with another code and a code of 0 with another status included, the run
\* raises the playbook failure carrying that status and that code, makes no handle
\* and stores none.
C24_OnlySuccessfulZeroIsSuccess ==
    PlaybookRan
        => IF inp.result.status = "successful" /\ inp.result.rc = 0
           THEN ret.ok \/ ret.err.type = "StopIteration"
           ELSE /\ ret = Raise("RuntimeError", "ansible-runner failed",
                               [status |-> inp.result.status, rc |-> inp.result.rc])
                /\ \A i \in 1..Len(log) : log[i].op # "get_host"
                /\ self.hosts = EmptyDict

C24_Witness ==
    /\ PlaybookRan
    /\ inp.result = [status |-> "failed", rc |-> 0]
    /\ ~ret.ok
    /\ ret.err.detail.status = "failed"
    /\ ret.err.detail.rc = 0
    /\ self.hosts = EmptyDict

\* the names of the connection variables
ConnectionNames ==
    {"ansible_host", "ansible_port", "ansible_user", "ansible_ssh_private_key_file",
     "ansible_ssh_common_args", "ansible_python_interpreter"}

\* the value block b gives a connection variable
ConnectionValue(b, k) ==
    CASE k = "ansible_host" -> Written(b, "hostname")
      [] k = "ansible_port" -> PortNumber(Written(b, "port"))
      [] k = "ansible_user" -> Written(b, "user")
      [] k = "ansible_ssh_private_key_file" -> Written(b, "identityfile")
      [] k = "ansible_ssh_common_args" ->
             "-o StrictHostKeyChecking=no -o UserKnownHostsFile=/dev/null"
      [] k = "ansible_python_interpreter" -> "/usr/bin/python3"

\* the extra variables ansible-runner was handed in the call
Handed == log[CHOOSE i \in 1..Len(log) : log[i].op = "ansible-runner"].b

\* C25: in the extra variables handed to ansible-runner, every caller entry under
\* a name that is no connection variable is passed through unchanged, and a caller
\* entry under the name of a connection variable never stands in place of the
\* connection parameter of the target host: the variable has the value of the
\* host's descriptor.  (With a generated inventory the code hands the caller's
\* value over.)
C25_CallerVarsNeverShadow ==
    (PlaybookRan /\ TargetSet(inp) # <<>>)
        => \A k \in DOMAIN inp.extravars :
               /\ k \in DOMAIN Handed
               /\ Handed[k] = IF k \in ConnectionNames
                              THEN ConnectionValue(BlockOf(inp.dump, TargetSet(inp)[1]), k)
                              ELSE inp.extravars[k]

\* the mapping with the keys of q, in order, and F's value for each: here the
\* descriptors a dump describes and the handles of a target set
DescriptorsOf(d) ==
    [keys |-> ValidAliases(d.blocks, <<>>),
     map |-> [i \in 1..Len(ValidAliases(d.blocks, <<>>)) |->
                 Described(BlockOf(d, ValidAliases(d.blocks, <<>>)[i]))]]

HandlesOf(in) ==
    [keys |-> TargetSet(in),
     map |-> [i \in 1..Len(TargetSet(in)) |-> HandleOf(BlockOf(in.dump, TargetSet(in)[i]))]]

\* C26: after a run that returned, whatever the runner stored before, the stored
\* descriptors are exactly those of the dump of this run, the alias-to-handle
\* mapping is exactly that of this run's target set and the primary handle is
\* this run's: nothing of an earlier run is kept or merged in.
C26_RerunReplacesStoredState ==
    (call = "run" /\ ret.ok)
        => /\ self.ssh_configs = DescriptorsOf(inp.dump)
           /\ self.hosts = HandlesOf(inp)
           /\ self.host = HandleOf(BlockOf(inp.dump, TargetSet(inp)[1]))
           /\ self.vagrantfile = ResolvedFile(inp)

C26_Witness ==
    /\ call = "run"
    /\ ret.ok
    /\ hist.before = <<<<"b">>, <<"a">>>>
    /\ inp.dump = OneHost
    /\ self.hosts.keys = <<<<"b">>>>
    /\ self.ssh_configs.keys = <<<<"b">>>>
    /\ self.host = self.hosts.map[1]

\* the log entries of the latest operation under one name
Entries(op) == {i \in 1..Len(log) : log[i].op = op}

\* the latest call was given an alias and returned
TargetedRun == call = "run" /\ ret.ok /\ inp.target_host # <<>>

\* C27: a run given an alias of the discovered mapping that returns has applied the
\* playbook to that alias only (every host line of a written inventory carries the
\* address of the alias's descriptor) and has made one handle, the alias's; the
\* alias-to-handle mapping has the one key, and the handle returned by the run,
\* stored as primary and returned by the host accessor after it is that entry's.
C27_TargetedRunOneEntry ==
    /\ TargetedRun
          => /\ Listed(inp.dump, inp.target_host)
             /\ self.hosts.keys = <<inp.target_host>>
             /\ self.hosts.map = <<HandleOf(BlockOf(inp.dump, inp.target_host))>>
             /\ ret.val = self.hosts.map[1]
             /\ self.host = self.hosts.map[1]
             /\ \A i \in Entries("get_host") : log[i].a = inp.target_host
             /\ Cardinality(Entries("get_host")) = 1
             /\ \A i \in Entries("write") :
                    \A j \in 1..Len(log[i].b.lines) :
                        /\ log[i].b.lines[j].ansible_host
                               = Written(BlockOf(inp.dump, inp.target_host), "hostname")
                        /\ log[i].b.lines[j].ansible_port
                               = Written(BlockOf(inp.dump, inp.target_host), "port")
    /\ (call = "host" /\ hist.last.ok /\ hist.last.target_host # <<>>)
          => /\ ret = Return(HandleOf(BlockOf(hist.last.dump, hist.last.target_host)))
             /\ self.hosts.keys = <<hist.last.target_host>>
             /\ ret.val = self.hosts.map[1]

C27_Witness ==
    /\ call = "host"
    /\ hist.last.ok
    /\ hist.last.dump = TwoHosts
    /\ hist.last.target_host = <<"a">>
    /\ ret.ok
    /\ ret.val.uri.hostname = Written(PlainBlock(<<"a">>), "hostname")
    /\ self.hosts.keys = <<<<"a">>>>

\* the latest call was given no alias and returned
UntargetedRun == call = "run" /\ ret.ok /\ inp.target_host = <<>>

\* the first block of a dump, in text order, that is full
FirstFull(d) ==
    d.blocks[CHOOSE i \in 1..Len(d.blocks) :
                 FullBlock(d.blocks[i]) /\ \A j \in 1..(i - 1) : ~FullBlock(d.blocks[j])]

\* C28: after a run without an alias that returned, the alias-to-handle mapping has
\* the keys of the stored descriptors, one per alias the dump gives a full block,
\* each with the handle of its block, and the handle returned and stored as
\* primary is that of the first full block of the text; for the dump with the one
\* block default / 127.0.0.1 / vagrant / 2222 / /k the one key is default and its
\* descriptor's port is the integer 2222.
C28_UntargetedRunAllHosts ==
    UntargetedRun
        => /\ self.hosts.keys = self.ssh_configs.keys
           /\ self.hosts.keys = ValidAliases(inp.dump.blocks, <<>>)
           /\ \A i \in 1..Len(self.hosts.keys) :
                  /\ self.hosts.map[i] = HandleOf(BlockOf(inp.dump, self.hosts.keys[i]))
                  /\ \A j \in 1..Len(self.hosts.keys) :
                         self.hosts.keys[j] = self.hosts.keys[i] => j = i
           /\ ret.val = HandleOf(FirstFull(inp.dump))
           /\ self.host = ret.val
           /\ inp.dump = DefaultHost
                 => /\ self.hosts.keys = <<DefaultBlock.alias>>
                    /\ self.ssh_configs.map[1].port = 2222
                    /\ self.ssh_configs.map[1].hostname = Written(DefaultBlock, "hostname")
                    /\ self.ssh_configs.map[1].user = Written(DefaultBlock, "user")

C28_Witness ==
    /\ UntargetedRun
    /\ hist.before = <<<<"b">>, <<"a">>>>
    /\ inp.dump = DefaultHost
    /\ Len(self.hosts.keys) = 1
    /\ self.ssh_configs.keys = <<DefaultBlock.alias>>
    /\ self.ssh_configs.map[1].port = 2222

\* the latest call asked for an alias the dump gives no full block
AbsentTarget == Discovered /\ inp.target_host # <<>> /\ ~Listed(inp.dump, inp.target_host)

\* C32: a run asked for an alias that is not in the discovered mapping raises the
\* not-found error having invoked vagrant up and vagrant ssh-config only: no
\* ansible-runner, no get_host; it stores no handle (the alias-to-handle mapping
\* is empty afterwards) and assigns no primary handle, that of another alias
\* included: the stored primary handle is what it was before the run.
C32_AbsentTargetFailsAtOnce ==
    [][ AbsentTarget'
          => /\ ~ret'.ok
             /\ ret'.err.type = "ValueError"
             /\ Len(log') = 2
             /\ IsVagrant(log'[1], "up") /\ IsVagrant(log'[2], "ssh-config")
             /\ self'.hosts = EmptyDict
             /\ self'.host = self.host ]_vars

C32_Witness ==
    /\ AbsentTarget
    /\ inp.target_host = <<"c">>
    /\ inp.dump = TwoHosts
    /\ hist.before = <<<<"b">>, <<"a">>>>
    /\ ~ret.ok
    /\ self.hosts = EmptyDict
    /\ Len(log) = 2

\* C36: a handle the host accessor returns is a value of the alias-to-handle
\* mapping the runner holds then; after a run that returned and a later run that
\* raised, the accessor does not return the handle of the earlier run.  (The code
\* never clears the primary handle: the accessor returns it while the mapping is
\* empty.)
C36_PrimaryIsOfMapping ==
    (call = "host" /\ ret.ok)
        => \E i \in 1..Len(self.hosts.map) : self.hosts.map[i] = ret.val

\* C37: a run without an alias whose dump gives no full block raises before
\* ansible-runner is invoked, and returns no handle.  (With a generated inventory
\* the code writes an inventory without hosts and invokes ansible-runner on it.)
C37_NoHostsStopsBeforePlaybook ==
    (Discovered /\ inp.target_host = <<>> /\ ValidAliases(inp.dump.blocks, <<>>) = <<>>)
        => /\ ~ret.ok
           /\ Entries("ansible-runner") = {}

\* the names of the connection variables that differ from host to host
HostVarNames ==
    {"ansible_host", "ansible_port", "ansible_user", "ansible_ssh_private_key_file"}

\* the call of ansible-runner of the latest run
RunnerEntry == log[CHOOSE i \in 1..Len(log) : log[i].op = "ansible-runner"]

\* C39: a run given an inventory_file writes no inventory and hands ansible-runner
\* the caller's file; the connection variables it hands over as extra variables
\* are those of the first descriptor of the target set, and with two or more
\* hosts in the target set no value of the descriptor of another host is handed
\* over under these names.
C39_CallerInventoryFirstHostOnly ==
    (PlaybookRan /\ inp.inventory_file # Absent)
        => /\ Entries("write") = {}
           /\ RunnerEntry.a = <<<<"proj", inp.playbook>>, <<"proj", inp.inventory_file>>>>
           /\ DOMAIN Handed = ConnectionNames \cup DOMAIN inp.extravars
           /\ \A k \in ConnectionNames :
                  Handed[k] = ConnectionValue(BlockOf(inp.dump, TargetSet(inp)[1]), k)
           /\ \A j \in 2..Len(TargetSet(inp)) :
                  \A k \in HostVarNames :
                      Handed[k] # ConnectionValue(BlockOf(inp.dump, TargetSet(inp)[j]), k)

C39_Witness ==
    /\ PlaybookRan
    /\ inp.inventory_file = "hosts.ini"
    /\ inp.target_host = <<>>
    /\ inp.dump = TwoHosts
    /\ ret.ok
    /\ Len(self.hosts.keys) = 2
    /\ Handed.ansible_host = Written(PlainBlock(<<"b">>), "hostname")
    /\ Handed.ansible_port = 23

(***************************************************************************)
(* Claims on the parser: order, repeated aliases, noise, quotes            *)
(***************************************************************************)
\* the text has a full block
SomeFull == \E i \in 1..Len(src.blocks) : FullBlock(src.blocks[i])

\* the last block of the text, in text order, that is full and declares alias a
LastFullWith(d, a) ==
    d.blocks[CHOOSE i \in 1..Len(d.blocks) :
                 /\ FullBlock(d.blocks[i]) /\ d.blocks[i].alias = a
                 /\ \A j \in (i + 1)..Len(d.blocks) :
                        ~(FullBlock(d.blocks[j]) /\ d.blocks[j].alias = a)]

\* the position in the text of the first full block that declares alias a
FirstFullAt(d, a) ==
    CHOOSE i \in 1..Len(d.blocks) :
        /\ FullBlock(d.blocks[i]) /\ d.blocks[i].alias = a
        /\ \A j \in 1..(i - 1) : ~(FullBlock(d.blocks[j]) /\ d.blocks[j].alias = a)

\* the keys of the mapping parse_all returned stand in the order in which their
\* first full blocks stand in the text
KeysInTextOrder ==
    /\ \A i \in 1..Len(ret.val.keys) :
           \E k \in 1..Len(src.blocks) :
               FullBlock(src.blocks[k]) /\ src.blocks[k].alias = ret.val.keys[i]
    /\ \A i, j \in 1..Len(ret.val.keys) :
           i < j => FirstFullAt(src, ret.val.keys[i]) < FirstFullAt(src, ret.val.keys[j])

\* C33 as stated: the keys of parse_all stand in text order, and parse_one on a
\* text with a full block returns the descriptor of the first full block of the
\* text, blocks that fail validation before it passed over.  (Not so when the
\* alias of that block is declared again by a later full block.)
C33_ParseOneFirstValidBlock ==
    /\ call = "parse_all" => KeysInTextOrder
    /\ (call = "parse_one" /\ SomeFull) => ret = Return(Described(FirstFull(src)))

\* C33, amended: the keys of parse_all stand in text order, and parse_one on a text
\* with a full block returns the entry of the alias of the first full block of
\* the text, blocks that fail validation before it passed over: the descriptor of
\* the last full block that declares that alias, which is the first full block
\* itself when no later full block declares its alias again.
C33_ParseOneFirstValidAlias ==
    /\ call = "parse_all" => KeysInTextOrder
    /\ (call = "parse_one" /\ SomeFull)
          => /\ ret = Return(Described(LastFullWith(src, FirstFull(src).alias)))
             /\ (\A j \in 1..Len(src.blocks) :
                    (FullBlock(src.blocks[j]) /\ src.blocks[j].alias = FirstFull(src).alias)
                        => Described(src.blocks[j]) = Described(FirstFull(src)))
                   => ret = Return(Described(FirstFull(src)))

C33_Witness ==
    /\ call = "parse_one"
    /\ src.blocks = <<BadPortBlock(<<"a">>), PlainBlock(<<"b">>), NegativePortBlock(<<"a">>)>>
    /\ ret = Return(Described(PlainBlock(<<"b">>)))

\* the positions of the blocks that declare alias a, and whether one is full
Declared(a) == {i \in 1..Len(src.blocks) : src.blocks[i].alias = a}

HasFull(a) == \E i \in Declared(a) : FullBlock(src.blocks[i])

\* C38: for an alias declared by two or more blocks of which one at least is full,
\* parse_all returns one entry: it holds the descriptor of the last full block
\* that declares the alias, whatever blocks that fail validation follow it, and it
\* stands where the first full block of the alias stands among the first full
\* blocks of the other aliases.
C38_RepeatedAliasLastValidWins ==
    call = "parse_all"
        => \A a \in Aliases :
               (Cardinality(Declared(a)) >= 2 /\ HasFull(a))
                   => /\ Cardinality({i \in 1..Len(ret.val.keys) : ret.val.keys[i] = a}) = 1
                      /\ Get(ret.val, a) = Described(LastFullWith(src, a))
                      /\ Pos(ret.val, a)
                             = Cardinality({b \in Aliases :
                                               /\ HasFull(b)
                                               /\ FirstFullAt(src, b) <= FirstFullAt(src, a)})

C38_Witness ==
    /\ call = "parse_all"
    /\ src.blocks = <<PlainBlock(<<"a">>), PlainBlock(<<"b">>), HalfQuotedBlock(<<"a">>)>>
    /\ ret.val.keys = <<<<"a">>, <<"b">>>>
    /\ ret.val.map[1] = Described(HalfQuotedBlock(<<"a">>))
    /\ ret.val.map[1] # Described(PlainBlock(<<"a">>))

\* a block description without its noise: the Host keyword and the keys spelled
\* as in the patterns, the lines of no recognized key left out
Recognized(b) == SelectSeq(b.items, LAMBDA it : it.key \in KeySet)

RECURSIVE Canonical(_)
Canonical(items) ==
    IF items = <<>> THEN <<>>
    ELSE <<[items[1] EXCEPT !.form = "canon"]>> \o Canonical(Tail(items))

\* the blocks of a text without the blocks of no recognized line
RECURSIVE DenoisedBlocks(_)
DenoisedBlocks(bs) ==
    IF bs = <<>> THEN <<>>
    ELSE (IF Recognized(bs[1]) = <<>> THEN <<>>
          ELSE <<Block(bs[1].alias, "Host", Canonical(Recognized(bs[1])))>>)
         \o DenoisedBlocks(Tail(bs))

\* the text without what precedes its first host declaration and without noise
Denoised(d) == [pre |-> <<>>, blocks |-> DenoisedBlocks(d.blocks)]

HasNoise(d) == d # Denoised(d)

\* C34: parse_all returns for a text what it returns for the same text without
\* its noise: without the lines before the first host declaration (key lines
\* among them), without the blocks of no recognized line, without the lines that
\* are neither a host declaration nor a line of one of the four keys, and with
\* the keywords spelled as in the patterns; and it returns, it does not raise.
C34_NoiseChangesNothing ==
    call = "parse_all"
        => /\ ret.ok
           /\ ret.val = from_ssh_config_multi(Render(Denoised(src)))

C34_Witness ==
    /\ call = "parse_all"
    /\ Len(src.pre) = 8
    /\ src.blocks = <<EmptyBlock(<<"a">>), QuotedBlock(<<"b">>)>>
    /\ HasNoise(src)
    /\ ret.val.keys = <<<<"b">>>>
    /\ ret.val.map[1] = Described(PlainBlock(<<"b">>))

\* the text of the value on the last line of key k of block b, blanks at its ends
\* aside
RawValue(b, k) ==
    ItemsOf(b, k)[Len(ItemsOf(b, k))].q \o Written(b, k) \o ItemsOf(b, k)[Len(ItemsOf(b, k))].q

QuoteChars == {"\"", "'"}

\* C35: the value parse_one returns for HostName, User or IdentityFile is the text
\* of the value without its first and last character when that text has two
\* characters or more and begins and ends with the same quote character, and is
\* the text unchanged otherwise: with a quote at one end only, with quotes of two
\* kinds, or when it is a single quote character.
C35_UnquoteSymmetricOnly ==
    (call = "parse_one" /\ Len(src.blocks) = 1 /\ FullBlock(src.blocks[1]))
        => /\ ret.ok
           /\ \A k \in {"hostname", "user", "identityfile"} :
                  \E raw \in {RawValue(src.blocks[1], k)} :
                      IF /\ Len(raw) >= 2
                         /\ raw[1] \in QuoteChars
                         /\ raw[Len(raw)] = raw[1]
                      THEN raw = <<raw[1]>> \o ret.val[k] \o <<raw[1]>>
                      ELSE ret.val[k] = raw

C35_Witness ==
    /\ call = "parse_one"
    /\ src.blocks = <<HostNameBlock(<<"a">>, Item("hostname", "canon", DQ, DQ \o <<"h">> \o DQ, <<>>))>>
    /\ ret.ok
    /\ ret.val.hostname = <<"\"", "h", "\"">>

(***************************************************************************)
(* Claims on playbook introspection                                        *)
(***************************************************************************)
\* each hosts value of HostsValues with what is left of it without the blanks at
\* its ends
StrippedTable ==
    { <<<<"w", "e", "b">>, <<"w", "e", "b">>>>, <<<<" ", "d", "b">>, <<"d", "b">>>>,
      <<<<"w", "e", "b", " ">>, <<"w", "e", "b">>>>, <<<<" ", "\t">>, <<>>>> }

Stripped(v) == (CHOOSE e \in StrippedTable : e[1] = v)[2]

\* the positions in the document of the plays whose hosts value is the string
\* pattern p, blanks at the ends aside
Declaring(data, p) ==
    {k \in 1..Len(data.items) : data.items[k].kind = "str" /\ Stripped(data.items[k].s) = p}

FirstDeclared(data, p) == CHOOSE k \in Declaring(data, p) : \A j \in Declaring(data, p) : k <= j

\* C30: extract_play_hosts returns patterns that are each the stripped, non-empty
\* string hosts value of some play, none twice, in the order of the first play
\* that declares each, and leaves none of them out; it returns the empty list
\* when no play of the document has a string hosts value (a document without
\* plays included).
C30_PlayHostsOrderedUnique ==
    call = "extract_play_hosts"
        => /\ ret.ok
           /\ \A i \in 1..Len(ret.val) :
                  /\ ret.val[i] # <<>>
                  /\ Declaring(inp, ret.val[i]) # {}
                  /\ \A j \in 1..Len(ret.val) :
                         /\ ret.val[j] = ret.val[i] => j = i
                         /\ i < j => FirstDeclared(inp, ret.val[i])
                                         < FirstDeclared(inp, ret.val[j])
           /\ \A k \in 1..Len(inp.items) :
                  (inp.items[k].kind = "str" /\ Stripped(inp.items[k].s) # <<>>)
                      => InSeq(ret.val, Stripped(inp.items[k].s))
           /\ (\A k \in 1..Len(inp.items) : inp.items[k].kind # "str") => ret.val = <<>>

C30_Witness ==
    /\ call = "extract_play_hosts"
    /\ inp = List(<<Str(<<" ", "d", "b">>), Str(<<"w", "e", "b">>), Str(<<"w", "e", "b", " ">>)>>)
    /\ ret.val = <<<<"d", "b">>, <<"w", "e", "b">>>>

(***************************************************************************)
(* Claims on the fixture                                                   *)
(***************************************************************************)
\* what each ini value of IniValues says: a mode, the default for a value that is
\* empty or blank, or nothing valid
IniMeaning ==
    { <<<<>>, "destroy">>, <<<<" ">>, "destroy">>, <<<<" ", "\t">>, "destroy">>,
      <<<<"destroy">>, "destroy">>, <<<<"DESTROY">>, "destroy">>, <<<<"halt">>, "halt">>,
      <<<<"Halt">>, "halt">>, <<<<" ", "HALT", " ">>, "halt">>, <<<<"none">>, "none">>,
      <<<<"NONE", " ">>, "none">>, <<<<"bogus">>, "invalid">>, <<<<" ", "bogus">>, "invalid">>,
      <<<<"halt", " ", "destroy">>, "invalid">>, <<<<"stop">>, "invalid">> }

MeaningOf(ini) == (CHOOSE e \in IniMeaning : e[1] = ini)[2]

\* C31: the mode is that of the option when the option is given, whatever the ini
\* value; without it, that of the ini value, read without the blanks at its ends
\* and without regard to case; DESTROY when neither says anything; and an ini
\* value that names no mode raises the usage error instead of giving a mode.
C31_ShutdownPrecedence ==
    call = "resolve_shutdown_mode"
        => IF inp.cli # <<>> THEN ret = Return(inp.cli)
           ELSE IF MeaningOf(inp.ini) = "invalid"
           THEN ~ret.ok /\ ret.err.type = "UsageError"
           ELSE ret = Return(<<MeaningOf(inp.ini)>>)

C31_Witness ==
    /\ call = "resolve_shutdown_mode"
    /\ inp.cli = <<"none">>
    /\ inp.ini = <<" ", "HALT", " ">>
    /\ ret = Return(<<"none">>)

\* the mode each configuration of ShutdownConfigs stands for; <<"bogus">> stands
\* for none
PolicyTable ==
    { <<[cli |-> <<>>, ini |-> <<"destroy">>], "destroy">>,
      <<[cli |-> <<>>, ini |-> <<" ", "HALT", " ">>], "halt">>,
      <<[cli |-> <<>>, ini |-> <<"none">>], "none">>,
      <<[cli |-> <<>>, ini |-> <<>>], "destroy">>,
      <<[cli |-> <<"halt">>, ini |-> <<"none">>], "halt">>,
      <<[cli |-> <<"none">>, ini |-> <<"destroy">>], "none">> }

HasPolicy == \E e \in PolicyTable : e[1] = scope.config

Policy == (CHOOSE e \in PolicyTable : e[1] = scope.config)[2]

\* the provider command of a policy against a Vagrantfile
PolicyCommand(policy, vf) ==
    CASE policy = "halt" -> <<Ev("vagrant", <<"halt">>, vf)>>
      [] policy = "destroy" -> <<Ev("vagrant", <<"destroy", "-f">>, vf)>>
      [] policy = "none" -> <<>>

\* C14: teardown invokes no provider command when no call of the scope resolved
\* the Vagrantfile path: there was no call, or every call failed on its playbook.
C14_TeardownNoOpUnresolved ==
    (call = "teardown" /\ hist.resolved = NoPath) => (log = <<>> /\ ret = Return(NoVal))

C14_Witness ==
    /\ call = "teardown"
    /\ hist.runs >= 1
    /\ hist.resolved = NoPath
    /\ HasPolicy /\ Policy = "destroy"
    /\ log = <<>>

\* C15: when the Vagrantfile path was resolved, teardown invokes the command of the
\* resolved policy exactly once, against that Vagrantfile, however many calls were
\* made: halt for HALT, destroy -f for DESTROY, nothing for NONE.
C15_TeardownAppliesPolicyOnce ==
    (call = "teardown" /\ hist.resolved # NoPath /\ HasPolicy)
        => log = PolicyCommand(Policy, hist.resolved)

C15_Witness ==
    /\ call = "teardown"
    /\ hist.runs = 2
    /\ hist.resolved = <<"proj", "alt/Vagrantfile">>
    /\ HasPolicy /\ Policy = "halt"
    /\ log = <<Ev("vagrant", <<"halt">>, <<"proj", "alt/Vagrantfile">>)>>

\* vagrant up was reached in the call
UpReached ==
    /\ call = "run"
    /\ inp.playbook_exists /\ inp.vagrantfile_exists
    /\ AllBins \subseteq inp.installed

\* C16: a return code of halt or destroy that is not 0 is not raised: teardown
\* returns whatever the code; a code that is not 0 from vagrant up or from
\* vagrant ssh-config is raised.
C16_TeardownNeverRaisesOnCode ==
    /\ (call = "teardown" /\ HasPolicy) => ret = Return(NoVal)
    /\ (UpReached /\ inp.up_rc # 0)
          => ret = Raise("CalledProcessError", "non-zero exit status", <<inp.up_rc>>)
    /\ (UpReached /\ inp.up_rc = 0 /\ inp.dump_rc # 0)
          => ret = Raise("CalledProcessError", "non-zero exit status", <<inp.dump_rc>>)

C16_Witness ==
    /\ call = "teardown"
    /\ inp.rc = 1
    /\ HasPolicy /\ Policy = "destroy"
    /\ log # <<>>
    /\ ret.ok

\* C17: teardown invokes a provider command only if provisioning started in the
\* scope, that is only if vagrant up was reached; after a call that failed because
\* the Vagrantfile is not on disk, teardown invokes none.
C17_TeardownOnlyIfStarted ==
    (call = "teardown" /\ hist.reached = {}) => log = <<>>

\* C18: under HALT or DESTROY, teardown invokes the command of the policy against
\* every Vagrantfile vagrant up was invoked on during the scope.
C18_NoMachineOrphaned ==
    (call = "teardown" /\ HasPolicy /\ Policy \in {"halt", "destroy"})
        => \A vf \in hist.started : log = PolicyCommand(Policy, vf)

====
